---- MODULE Spec2Model ----
(***************************************************************************)
(* slow-stac: resolution of an image selection into a download plan and    *)
(* the resumable, partial-file based execution of that plan.               *)
(*                                                                         *)
(* Part I  : the filesystem and the object storage the executor talks to.  *)
(* Part II : DownloadPlan::execute / try_download  (src/src/download_plan.rs)*)
(* Part III: generate_download_plan (copernicus and element84 resolvers).   *)
(***************************************************************************)
EXTENDS Integers, Sequences, FiniteSets, TLC

\* ------------------------------------------------------------------ bounds
MaxSize == 2        \* largest size in bytes of a remote object
MaxRuns == 2        \* how many times the caller invokes execute on the plan

\* ------------------------------------------------------------------ values
NoFile == 0         \* a path that names no file / a handle that is not open

Min(a, b) == IF a < b THEN a ELSE b

Drop(s, n) == SubSeq(s, n + 1, Len(s))

Take(s, n) == SubSeq(s, 1, n)

IsPrefix(p, s) == Len(p) <= Len(s) /\ Take(s, Len(p)) = p

\* DownloadTask { bucket, key, output }: output is kept as its parent
\* directory and its file name, the two parts try_download uses.
Task(b, k, d, f) == [bucket |-> b, key |-> k, output |-> [dir |-> d, file |-> f]]

AllTasks == { Task("bkt", "k1", "d1", "a"), Task("bkt", "k2", "d2", "b") }

Keys == { t.key : t \in AllTasks }

Outputs == { t.output : t \in AllTasks }

\* format!("{}.partial", output)
PartialPath(output) == [dir |-> output.dir, file |-> output.file \o ".partial"]

\* dst.parent()
ParentDir(path) == path.dir

Paths == Outputs \cup { PartialPath(o) : o \in Outputs }

Dirs == { ParentDir(p) : p \in Paths }

\* The bytes of the remote object under key k when it is n bytes long: byte i
\* of object k is the pair <<k, i>>, so a byte at a wrong offset or of a
\* wrong object is told apart.
ObjectBytes(k, n) == [i \in 1..n |-> <<k, i>>]

\* A byte that belongs to no remote object.
Junk == <<"junk", 0>>

VARIABLES
    plan,        \* DownloadPlan.tasks
    remote,      \* object storage: key -> content
    names,       \* filesystem: path -> inode (NoFile when the path is absent)
    data,        \* filesystem: inode -> content
    dirs,        \* filesystem: the directories that exist
    pc,          \* executor -> position in execute / try_download
    idx,         \* executor -> index in plan of the task being run
    partial_file,\* executor -> inode of the open .partial handle
    byte_count,  \* executor -> try_download's byte_count
    total_size,  \* executor -> try_download's total_size
    body,        \* executor -> bytes of the range response not yet read
    result,      \* executor -> what the last execute returned
    runs,        \* number of execute invocations so far
    netlog,      \* history: the storage calls of each executor's current execute, in order
    fs0,         \* history: the filesystem when the current execute began
    fsT,         \* history: the filesystem when the current try_download began
    selection,   \* the ImageSelection given to generate_download_plan
    gpc,         \* position in generate_download_plan
    ids,         \* generate_download_plan's ids_to_download
    products,    \* generate_download_plan's products_to_download
    cursor,      \* index in ids of the `for id in ids_to_download` loop
    manifest,    \* the Manifest being fetched (bucket, prefix)
    tasks,       \* generate_download_plan's tasks
    outcome,     \* what generate_download_plan returned
    fetches,     \* history: the catalog and storage requests issued, in order
    url,         \* the URL given to get_s3_url_parts
    parsed,      \* what get_s3_url_parts returned
    planfile,    \* the file DownloadPlan::write and read are given
    stored,      \* what the last DownloadPlan::write returned, and its plan
    loaded,      \* what the last DownloadPlan::read returned
    mdoc,        \* the document Manifest::parse is called on
    mparsed,     \* what Manifest::parse returned
    built,       \* what ImageSelection::from_template returned, and its template
    selfile,     \* the file ImageSelection::write and read are given
    selwrote,    \* what the last ImageSelection::write returned
    selread      \* what the last ImageSelection::read returned

fsvars == <<names, data, dirs>>

exvars == <<pc, idx, partial_file, byte_count, total_size, body, result>>

histvars == <<netlog, fs0, fsT>>

\* the state of DownloadPlan::execute
xvars == <<plan, remote, names, data, dirs, pc, idx, partial_file, byte_count,
           total_size, body, result, runs, netlog, fs0, fsT>>

\* the state of generate_download_plan
bvars == <<selection, gpc, ids, products, cursor, manifest, tasks, outcome, fetches>>

\* the state of DownloadPlan::write / read
svars == <<planfile, stored, loaded>>

\* the argument and the result of Manifest::parse called on its own
mvars == <<mdoc, mparsed>>

\* the state of ImageSelection::from_template / write / read
tvars == <<built, selfile, selwrote, selread>>

\* the argument and the result of get_s3_url_parts called on its own, the
\* state of write / read, mvars and tvars
pvars == <<url, parsed, svars, mvars, tvars>>

vars == <<xvars, bvars, pvars>>

Executors == DOMAIN pc

FileSystem == [names |-> names, data |-> data, dirs |-> dirs]

Exists(path) == names[path] # NoFile

Content(path) == data[names[path]]

FreshInode == Len(data) + 1

\* ------------------------------------------------------------ object storage
\* S3ObjOps::head_object: the request sent for (bucket, key).
HeadObject(bucket, key) == [op |-> "head_object", bucket |-> bucket, key |-> key]

\* get_object_range asking for the object from its first byte again (the
\* mutant used for C2).
GetObjectRangeFromZero(bucket, key, start_byte, end_byte) ==
    [op |-> "get_object_range", bucket |-> bucket, key |-> key,
     range |-> <<0, end_byte>>]

\* S3ObjOps::get_object_range: the request sent, with its Range header
\* "bytes={start_byte}-{end_byte}" kept as the pair of its two numbers.
GetObjectRange(bucket, key, start_byte, end_byte) ==
    [op |-> "get_object_range", bucket |-> bucket, key |-> key,
     range |-> <<start_byte, end_byte>>]

\* What a storage that honours the Range header sends back: the bytes at
\* offsets first..last (inclusive, from 0) of the object.
ServeRange(content, first, last) == SubSeq(content, first + 1, Min(last + 1, Len(content)))

\* The bodies a range request may be answered with, by kind: the requested
\* bytes, fewer than requested (the stream just ends), or more.
RangeBodies(req) ==
    LET exact == ServeRange(remote[req.key], req.range[1], req.range[2])
    IN  { [kind |-> "exact", bytes |-> exact],
          [kind |-> "long", bytes |-> Append(exact, Junk)] }
        \cup (IF Len(exact) > 0
              THEN { [kind |-> "short", bytes |-> Take(exact, Len(exact) - 1)] }
              ELSE {})

\* ------------------------------------------------------------------- Init
\* The plans: every sequence of tasks up to as many as there are distinct
\* tasks (a plan may name a task twice).
Plans == UNION { [1..n -> AllTasks] : n \in 0..Cardinality(AllTasks) }

KeyOf(output) == (CHOOSE t \in AllTasks : t.output = output).key

\* What a path may hold before the first run: nothing; or, for a .partial
\* path, what an earlier run left there (a prefix of the object as it was
\* then, possibly longer than it is now) or bytes that are not the object's;
\* or, for a destination, a finished file.
InitialContents(path) ==
    IF path \in Outputs
    THEN { <<Junk>> }
    ELSE LET o == CHOOSE o \in Outputs : PartialPath(o) = path
         IN  { ObjectBytes(KeyOf(o), n) : n \in 0..MaxSize } \cup { <<Junk>> }

PathList == <<Task("bkt", "k1", "d1", "a").output,
              PartialPath(Task("bkt", "k1", "d1", "a").output),
              Task("bkt", "k2", "d2", "b").output,
              PartialPath(Task("bkt", "k2", "d2", "b").output)>>

\* The filesystems of the initial states: each path absent or present with
\* one of its contents; a directory exists if it holds a file, and may exist
\* empty. Only the paths in `used` vary: no operation reads another path.
RECURSIVE InitialFiles(_, _)
InitialFiles(n, used) ==
    IF n = 0 THEN { [names |-> [p \in Paths |-> NoFile], data |-> <<>>] }
    ELSE LET p == PathList[n]
             rest == InitialFiles(n - 1, used)
         IN  IF p \notin used THEN rest
             ELSE UNION { { f } \cup
                          { [names |-> [f.names EXCEPT ![p] = Len(f.data) + 1],
                             data |-> Append(f.data, c)] : c \in InitialContents(p) }
                          : f \in rest }

PlanOutputs(ts) == { ts[i].output : i \in DOMAIN ts }

PlanKeys(ts) == { ts[i].key : i \in DOMAIN ts }

InitFs(outputs) ==
    \E f \in InitialFiles(Len(PathList), outputs \cup { PartialPath(o) : o \in outputs }) :
        /\ names = f.names
        /\ data = f.data
        /\ \E ds \in SUBSET { ParentDir(o) : o \in outputs } :
              /\ \A p \in Paths : f.names[p] # NoFile => ParentDir(p) \in ds
              /\ dirs = ds

\* The storage of the initial states: every object the plan names has some
\* size up to MaxSize.
InitRemote(keys) ==
    \E size \in [Keys -> 0..MaxSize] :
        /\ \A k \in Keys \ keys : size[k] = 0
        /\ remote = [k \in Keys |-> ObjectBytes(k, size[k])]

InitExecutors(E) ==
    /\ pc = [e \in E |-> "idle"]
    /\ idx = [e \in E |-> 0]
    /\ partial_file = [e \in E |-> NoFile]
    /\ byte_count = [e \in E |-> 0]
    /\ total_size = [e \in E |-> 0]
    /\ body = [e \in E |-> <<>>]
    /\ result = [e \in E |-> "none"]
    /\ runs = 0
    /\ netlog = <<>>
    /\ fs0 = [e \in E |-> FileSystem]
    /\ fsT = [e \in E |-> FileSystem]

\* get_s3_url_parts is not called on its own.
ParserIdle ==
    /\ url = <<>>
    /\ parsed = [kind |-> "none"]

\* Manifest::parse is not called on its own.
ManifestIdle ==
    /\ mdoc = [xml |-> FALSE, section |-> FALSE, children |-> <<>>]
    /\ mparsed = [kind |-> "none"]

\* No selection is built, written or read.
SelectionIdle ==
    /\ built = [kind |-> "none"]
    /\ selfile = [exists |-> FALSE, content |-> <<>>]
    /\ selwrote = [kind |-> "none"]
    /\ selread = [kind |-> "none"]

\* No plan is written or read.
StoreIdle ==
    /\ planfile = [exists |-> FALSE, content |-> <<>>]
    /\ stored = [kind |-> "none"]
    /\ loaded = [kind |-> "none"]

\* generate_download_plan is not part of a run of execute.
BuilderIdle ==
    /\ selection = [id |-> "none", ids_to_download |-> <<>>, products |-> <<>>]
    /\ gpc = "off"
    /\ ids = <<>>
    /\ products = <<>>
    /\ cursor = 0
    /\ manifest = [bucket |-> "", prefix |-> <<>>]
    /\ tasks = <<>>
    /\ outcome = [kind |-> "none"]
    /\ fetches = <<>>

Init ==
    /\ SelectionIdle
    /\ BuilderIdle
    /\ ParserIdle
    /\ StoreIdle
    /\ ManifestIdle
    /\ plan \in Plans
    /\ InitRemote(PlanKeys(plan))
    /\ InitFs(PlanOutputs(plan))
    /\ InitExecutors({1})

\* ------------------------------------------------- execute / try_download
CurrentTask(e) == plan[idx[e]]

\* A storage call of executor e with how it was answered, as logged.
Logged(e, req, answer) == [e |-> e, task |-> idx[e], req |-> req, answer |-> answer]

\* The guard with <= for < (the mutant used for C3).
NeedsFetchOrEqual(have, total) == have <= total

\* The guard that lets every try_download fetch (the mutant used for C29).
NeedsFetchAlways(have, total) == have \in Nat

\* The guard with # for <: a fetch whenever the lengths differ (the mutant
\* used for C26).
NeedsFetchUnequal(have, total) == have # total

\* try_download: `if byte_count < total_size` guards the ranged fetch.
NeedsFetch(have, total) == have < total

\* A skip-and-continue execute: the error is dropped and the loop goes on
\* (the mutant used for C6).
ReturnErrContinue(e, err) ==
    /\ pc' = [pc EXCEPT ![e] = "execute"]
    /\ idx' = [idx EXCEPT ![e] = idx[e] + 1]
    /\ partial_file' = [partial_file EXCEPT ![e] = NoFile]
    /\ byte_count' = [byte_count EXCEPT ![e] = 0]
    /\ total_size' = [total_size EXCEPT ![e] = 0]
    /\ body' = [body EXCEPT ![e] = <<>>]
    /\ UNCHANGED result

\* try_download returns Err (a `?` fired); execute returns it at once. The
\* open handle is dropped.
ReturnErr(e, err) ==
    /\ pc' = [pc EXCEPT ![e] = "failed"]
    /\ result' = [result EXCEPT ![e] = err]
    /\ partial_file' = [partial_file EXCEPT ![e] = NoFile]
    /\ byte_count' = [byte_count EXCEPT ![e] = 0]
    /\ total_size' = [total_size EXCEPT ![e] = 0]
    /\ body' = [body EXCEPT ![e] = <<>>]
    /\ UNCHANGED idx

\* try_download returns Ok(()): execute's loop goes on to the next task.
ReturnOk(e) ==
    /\ pc' = [pc EXCEPT ![e] = "execute"]
    /\ idx' = [idx EXCEPT ![e] = idx[e] + 1]
    /\ partial_file' = [partial_file EXCEPT ![e] = NoFile]
    /\ byte_count' = [byte_count EXCEPT ![e] = 0]
    /\ total_size' = [total_size EXCEPT ![e] = 0]
    /\ body' = [body EXCEPT ![e] = <<>>]
    /\ UNCHANGED result

\* The caller (handle_download, or a user running it again) calls
\* plan.execute(provider).
Invoke(e) ==
    /\ pc[e] \in {"idle", "done", "failed"}
    /\ runs < MaxRuns
    /\ runs' = runs + 1
    /\ pc' = [pc EXCEPT ![e] = "execute"]
    /\ idx' = [idx EXCEPT ![e] = 1]
    /\ result' = [result EXCEPT ![e] = "none"]
    /\ netlog' = SelectSeq(netlog, LAMBDA call : call.e # e)
    /\ fs0' = [fs0 EXCEPT ![e] = FileSystem]
    /\ UNCHANGED <<pvars, bvars, plan, remote, fsvars, partial_file, byte_count, total_size, body, fsT>>

\* An execute that asks the catalog about each task before it runs it (the
\* mutant used for C18).
ExecuteLoopResolving(e) ==
    /\ pc[e] = "execute"
    /\ IF idx[e] > Len(plan)
       THEN /\ pc' = [pc EXCEPT ![e] = "done"]
            /\ result' = [result EXCEPT ![e] = "Ok"]
            /\ UNCHANGED <<fsT, fetches>>
       ELSE /\ pc' = [pc EXCEPT ![e] = "exists"]
            /\ fsT' = [fsT EXCEPT ![e] = FileSystem]
            /\ fetches' = Append(fetches, [kind |-> "catalog", key |-> plan[idx[e]].key])
            /\ UNCHANGED result
    /\ UNCHANGED <<pvars, selection, gpc, ids, products, cursor, manifest, tasks, outcome,
                   plan, remote, fsvars, idx, partial_file, byte_count, total_size,
                   body, runs, netlog, fs0>>

\* execute: `for task in self.tasks.iter()`, and `Ok(())` after the loop.
ExecuteLoop(e) ==
    /\ pc[e] = "execute"
    /\ IF idx[e] > Len(plan)
       THEN /\ pc' = [pc EXCEPT ![e] = "done"]
            /\ result' = [result EXCEPT ![e] = "Ok"]
            /\ UNCHANGED fsT
       ELSE /\ pc' = [pc EXCEPT ![e] = "exists"]
            /\ fsT' = [fsT EXCEPT ![e] = FileSystem]
            /\ UNCHANGED result
    /\ UNCHANGED <<pvars, bvars, plan, remote, fsvars, idx, partial_file, byte_count, total_size,
                   body, runs, netlog, fs0>>

\* CheckExists without the early return (the mutant used for C1).
CheckExistsNoSkip(e) ==
    /\ pc[e] = "exists"
    /\ pc' = [pc EXCEPT ![e] = "mkdir"]
    /\ UNCHANGED <<idx, partial_file, byte_count, total_size, body, result>>
    /\ UNCHANGED <<pvars, bvars, plan, remote, fsvars, runs, histvars>>

\* try_download: `if dst.exists() { return Ok(()) }`.
CheckExists(e) ==
    /\ pc[e] = "exists"
    /\ IF Exists(CurrentTask(e).output)
       THEN ReturnOk(e)
       ELSE /\ pc' = [pc EXCEPT ![e] = "mkdir"]
            /\ UNCHANGED <<idx, partial_file, byte_count, total_size, body, result>>
    /\ UNCHANGED <<pvars, bvars, plan, remote, fsvars, runs, histvars>>

\* try_download: `if !parent_dir.exists() { fs::create_dir_all(parent_dir)? }`.
MakeParentDir(e) ==
    /\ pc[e] = "mkdir"
    /\ LET parent_dir == ParentDir(CurrentTask(e).output)
       IN  \/ /\ parent_dir \in dirs
              /\ pc' = [pc EXCEPT ![e] = "open"]
              /\ UNCHANGED <<dirs, idx, partial_file, byte_count, total_size, body, result>>
           \/ /\ parent_dir \notin dirs
              /\ dirs' = dirs \cup {parent_dir}
              /\ pc' = [pc EXCEPT ![e] = "open"]
              /\ UNCHANGED <<idx, partial_file, byte_count, total_size, body, result>>
           \/ /\ parent_dir \notin dirs
              /\ ReturnErr(e, "Io")
              /\ UNCHANGED dirs
    /\ UNCHANGED <<pvars, bvars, plan, remote, names, data, runs, histvars>>

\* An open with truncate(true) in place of append(true): an existing file is
\* emptied (the mutant used for C24).
OpenTruncate(path) ==
    IF Exists(path)
    THEN [names |-> names, data |-> [data EXCEPT ![names[path]] = <<>>],
          inode |-> names[path]]
    ELSE [names |-> [names EXCEPT ![path] = FreshInode],
          data |-> Append(data, <<>>), inode |-> FreshInode]

\* OpenOptions::new().read(true).create(true).append(true).open(&partial):
\* the filesystem after a successful open, and the inode opened.
OpenAppend(path) ==
    IF Exists(path)
    THEN [names |-> names, data |-> data, inode |-> names[path]]
    ELSE [names |-> [names EXCEPT ![path] = FreshInode],
          data |-> Append(data, <<>>), inode |-> FreshInode]

\* A try_download that goes from the open to the ranged fetch without the
\* head_object call (the mutant used for C25).
OpenPartialNoHead(e) ==
    /\ pc[e] = "open"
    /\ LET partial == PartialPath(CurrentTask(e).output)
           opened == OpenAppend(partial)
       IN  \/ /\ ReturnErr(e, "Io")
              /\ UNCHANGED <<names, data>>
           \/ /\ names' = opened.names
              /\ data' = opened.data
              /\ partial_file' = [partial_file EXCEPT ![e] = opened.inode]
              /\ byte_count' = [byte_count EXCEPT ![e] = Len(opened.data[opened.inode])]
              /\ total_size' = [total_size EXCEPT ![e] = Len(remote[CurrentTask(e).key])]
              /\ pc' = [pc EXCEPT ![e] = IF byte_count'[e] < total_size'[e]
                                         THEN "range" ELSE "head"]
              /\ UNCHANGED <<idx, body, result>>
    /\ UNCHANGED <<pvars, bvars, plan, remote, dirs, runs, histvars>>

\* try_download: open the .partial file, `byte_count = metadata()?.len()`.
OpenPartial(e) ==
    /\ pc[e] = "open"
    /\ LET partial == PartialPath(CurrentTask(e).output)
           opened == OpenAppend(partial)
       IN  \/ /\ ReturnErr(e, "Io")                \* open()? fails
              /\ UNCHANGED <<names, data>>
           \/ /\ names' = opened.names            \* metadata()? fails
              /\ data' = opened.data
              /\ ReturnErr(e, "Io")
           \/ /\ names' = opened.names
              /\ data' = opened.data
              /\ partial_file' = [partial_file EXCEPT ![e] = opened.inode]
              /\ byte_count' = [byte_count EXCEPT ![e] = Len(opened.data[opened.inode])]
              /\ pc' = [pc EXCEPT ![e] = "head"]
              /\ UNCHANGED <<idx, total_size, body, result>>
    /\ UNCHANGED <<pvars, bvars, plan, remote, dirs, runs, histvars>>

\* How a head_object call may be answered: an error, a response without a
\* content length, a response with the object's length.
HeadAnswers == {"error", "no_length", "length"}

\* total_size under a bug that reads a missing length as 0 (mutant for C7).
TotalSizeOrZero(answer, length) ==
    [ok |-> TRUE, value |-> IF answer = "length" THEN length ELSE 0]

\* try_download: `head_object.content_length().ok_or(anyhow!(...))? as u64`.
TotalSize(answer, length) ==
    IF answer = "length" THEN [ok |-> TRUE, value |-> length]
    ELSE [ok |-> FALSE, value |-> 0]

\* try_download: `provider.head_object(bucket, key).await?` and
\* `content_length().ok_or(...)?`; then the choice `if byte_count < total_size`.
HeadRequest(e) ==
    /\ pc[e] = "head"
    /\ \E answer \in HeadAnswers :
          LET task == CurrentTask(e)
              req == HeadObject(task.bucket, task.key)
              total == TotalSize(answer, Len(remote[req.key]))
          IN  /\ netlog' = Append(netlog, Logged(e, req, answer))
              /\ IF answer = "error" THEN ReturnErr(e, "Net")
                 ELSE IF ~total.ok THEN ReturnErr(e, "SizeUnknown")
                 ELSE /\ total_size' = [total_size EXCEPT ![e] = total.value]
                      /\ pc' = [pc EXCEPT ![e] =
                                 IF NeedsFetch(byte_count[e], total.value)
                                 THEN "range" ELSE "rename"]
                      /\ UNCHANGED <<idx, partial_file, byte_count, body, result>>
    /\ UNCHANGED <<pvars, bvars, plan, remote, fsvars, runs, fs0, fsT>>

\* The words of the executor's u64 arithmetic. TLC's integers end at
\* 2^31 - 1, so a word is kept 2^30 wide here, far above every size of the
\* model.
Word == 2^30

\* `a - b` on u64 in a build without overflow checks: it wraps.
WrappingSub(a, b) == (a - b) % Word

\* try_download: `provider.get_object_range(bucket, key, byte_count,
\* total_size - 1).await?`. Where `total_size - 1` underflows, a build with
\* overflow checks panics and one without them sends the wrapped number.
RangeRequest(e) ==
    /\ pc[e] = "range"
    /\ LET task == CurrentTask(e)
           req == GetObjectRange(task.bucket, task.key, byte_count[e],
                                 WrappingSub(total_size[e], 1))
       IN  \/ /\ netlog' = Append(netlog, Logged(e, req, "error"))
              /\ ReturnErr(e, "Net")
           \/ \E b \in RangeBodies(req) :
                /\ netlog' = Append(netlog, Logged(e, req, b.kind))
                /\ body' = [body EXCEPT ![e] = b.bytes]
                /\ pc' = [pc EXCEPT ![e] = "stream"]
                /\ UNCHANGED <<idx, partial_file, byte_count, total_size, result>>
           \/ /\ total_size[e] < 1
              /\ pc' = [pc EXCEPT ![e] = "panicked"]
              /\ UNCHANGED <<netlog, idx, partial_file, byte_count, total_size, body, result>>
    /\ UNCHANGED <<pvars, bvars, plan, remote, fsvars, runs, fs0, fsT>>

\* A write on a handle opened without append(true): the bytes replace the
\* file's content from its start (the mutant used for C4).
WriteFromStart(inode, bytes) ==
    [data EXCEPT ![inode] = bytes \o Drop(@, Min(Len(bytes), Len(@)))]

\* A write that puts the bytes before what the file holds (the mutant used
\* for C28).
WritePrepend(inode, bytes) == [data EXCEPT ![inode] = bytes \o @]

\* partial_file.write_all(&bytes) on a handle opened with append(true): the
\* bytes go to the end of the open file.
WriteAppend(inode, bytes) == [data EXCEPT ![inode] = @ \o bytes]

\* try_download: one turn of `while let Some(bytes) =
\* response.body.try_next().await?`, with `write_all(&bytes)?` and
\* `byte_count += bytes_len`.
StreamChunk(e) ==
    /\ pc[e] = "stream"
    /\ \/ /\ body[e] = <<>>                       \* try_next: Ok(None)
          /\ pc' = [pc EXCEPT ![e] = "rename"]
          /\ UNCHANGED <<data, idx, partial_file, byte_count, total_size, body, result>>
       \/ /\ ReturnErr(e, "Net")                  \* try_next: Err
          /\ UNCHANGED data
       \/ \E n \in 1..Len(body[e]) :              \* try_next: Ok(Some(bytes))
            LET bytes == Take(body[e], n)
            IN  \/ /\ data' = WriteAppend(partial_file[e], bytes)
                   /\ byte_count' = [byte_count EXCEPT ![e] = @ + Len(bytes)]
                   /\ body' = [body EXCEPT ![e] = Drop(@, n)]
                   /\ UNCHANGED <<pc, idx, partial_file, total_size, result>>
                \/ \E written \in 0..(n - 1) :    \* write_all fails part-way
                     /\ data' = WriteAppend(partial_file[e], Take(bytes, written))
                     /\ ReturnErr(e, "Io")
    /\ UNCHANGED <<pvars, bvars, plan, remote, names, dirs, runs, histvars>>

\* A copy in place of the rename: `from` stays (the mutant used for C5).
CopyPath(from, to) == [names EXCEPT ![to] = names[from]]

\* fs::rename(from, to): the names after it (an existing `to` is replaced).
RenamePath(from, to) == [names EXCEPT ![to] = names[from], ![from] = NoFile]

\* try_download: `fs::rename(partial, dst)?; Ok(())`.
FinishRename(e) ==
    /\ pc[e] = "rename"
    /\ LET dst == CurrentTask(e).output
           partial == PartialPath(dst)
       IN  \/ /\ Exists(partial)
              /\ names' = RenamePath(partial, dst)
              /\ ReturnOk(e)
           \/ /\ ReturnErr(e, "Io")
              /\ UNCHANGED names
    /\ UNCHANGED <<pvars, bvars, plan, remote, data, dirs, runs, histvars>>

Step(e) ==
    \/ Invoke(e)
    \/ ExecuteLoop(e)
    \/ CheckExists(e)
    \/ MakeParentDir(e)
    \/ OpenPartial(e)
    \/ HeadRequest(e)
    \/ RangeRequest(e)
    \/ StreamChunk(e)
    \/ FinishRename(e)

Next == \E e \in Executors : Step(e)

Spec == Init /\ [][Next]_vars

\* ----------------------------------------- two executors on one destination
\* Two callers run execute on the same one-task plan at the same time: two
\* processes, or two tasks of one process, each with its own handle on the
\* .partial file. The destination is not there yet, and what an earlier run
\* left in the .partial file is a prefix of the remote object.
InitRace ==
    /\ SelectionIdle
    /\ BuilderIdle
    /\ ParserIdle
    /\ StoreIdle
    /\ ManifestIdle
    /\ plan = <<Task("bkt", "k1", "d1", "a")>>
    /\ InitRemote(PlanKeys(plan))
    /\ InitFs(PlanOutputs(plan))
    /\ ~Exists(plan[1].output)
    /\ Exists(PartialPath(plan[1].output))
          => IsPrefix(Content(PartialPath(plan[1].output)), remote[plan[1].key])
    /\ InitExecutors({1, 2})

\* Each of the two callers calls execute once.
NextRace == \E e \in Executors : pc[e] \notin {"done", "failed"} /\ Step(e)

SpecRace == InitRace /\ [][NextRace]_vars

\* ------------------------------------------------------ a caller that retries
\* execute has no retry of its own: a caller that wants the plan done calls
\* it again after a failure, as often as it takes. The calls past MaxRuns
\* are not counted.
Retry(e) ==
    /\ pc[e] = "failed"
    /\ runs = MaxRuns
    /\ pc' = [pc EXCEPT ![e] = "execute"]
    /\ idx' = [idx EXCEPT ![e] = 1]
    /\ result' = [result EXCEPT ![e] = "none"]
    /\ netlog' = SelectSeq(netlog, LAMBDA call : call.e # e)
    /\ fs0' = [fs0 EXCEPT ![e] = FileSystem]
    /\ UNCHANGED <<pvars, bvars, plan, remote, fsvars, partial_file, byte_count, total_size,
                   body, runs, fsT>>

NextLive == \E e \in Executors : Step(e) \/ Retry(e)

\* The plan retried has two tasks.
InitLive ==
    /\ Init
    /\ plan = <<Task("bkt", "k1", "d1", "a"), Task("bkt", "k2", "d2", "b")>>

\* The runtime keeps polling the future of execute and the caller keeps
\* calling: a step that can be taken is taken in the end. Whether a step
\* fails is not up to the scheduler.

SpecLive == InitLive /\ [][NextLive]_vars /\ WF_vars(NextLive)

\* ============================================ Part III: generate_download_plan
\* Strings that are searched or split are kept as sequences: an identifier
\* as its characters, a path or key as its '/'-separated segments.
MaxIds == 2         \* longest ids_to_download list of a selection
MaxProducts == 2    \* longest products list of a selection

None == [some |-> FALSE]

Some(v) == [some |-> TRUE, v |-> v]

Last(s) == s[Len(s)]

\* All orders in which the elements of a finite set can be iterated.
Orders(S) ==
    { f \in [1..Cardinality(S) -> S] : \A i, j \in 1..Cardinality(S) : f[i] = f[j] => i = j }

Range(s) == { s[i] : i \in DOMAIN s }

\* A match on any one character in common (the mutant used for C12).
ContainsSomeChar(hay, needle) == \E i \in DOMAIN hay : \E j \in DOMAIN needle : hay[i] = needle[j]

\* str::contains: needle occurs in hay as a contiguous run.
Contains(hay, needle) ==
    \E i \in 1..(Len(hay) - Len(needle) + 1) : SubSeq(hay, i, i + Len(needle) - 1) = needle

CopernicusId == "copernicus.sentinel2level2a"

Element84Id == "element84.sentinel2collection1level2a"

\* generate_download_plan's output_dir argument.
OutputDir == <<"out">>

SceneIds == {"S1", "S2"}

\* The product ids a selection may name: "B2", "TC".
ProductIds == { <<"B", "2">>, <<"T", "C">> }

\* Product { id, name, download } (name is never read).
Products == [id : ProductIds, download : BOOLEAN]

SeqsUpTo(S, n) == UNION { [1..k -> S] : k \in 0..n }

\* ImageSelection { id, ids_to_download, products, .. }
Selections ==
    [id : {CopernicusId, Element84Id},
     ids_to_download : SeqsUpTo(SceneIds, MaxIds),
     products : SeqsUpTo(Products, MaxProducts)]

\* A filter that keeps every product (the mutant used for C9).
IsFlaggedOrNot(p) == p.download \in BOOLEAN

\* products_to_download: `.filter(|p| p.download == true)`.
IsFlagged(p) == p.download = TRUE

\* products_to_download without its is_empty check (the mutant used for C8).
ProductsToDownloadUnchecked(sel) == Some(SelectSeq(sel.products, IsFlagged))

\* products_to_download with the flagged products in reverse (the mutant
\* used for C27).
ProductsToDownloadReversed(sel) ==
    LET to_download == SelectSeq(sel.products, IsFlagged)
    IN  IF to_download = <<>> THEN None
        ELSE Some([k \in DOMAIN to_download |-> to_download[Len(to_download) + 1 - k]])

\* ImageSelection::products_to_download
ProductsToDownload(sel) ==
    LET to_download == SelectSeq(sel.products, IsFlagged)
    IN  IF to_download = <<>> THEN None ELSE Some(to_download)

\* ids_to_download without the removal of duplicates (the mutant used for C14).
IdsToDownloadAsListed(sel) ==
    IF sel.ids_to_download = <<>> THEN { None } ELSE { Some(sel.ids_to_download) }

\* ImageSelection::ids_to_download: the results it may return. The
\* duplicates are removed through a HashSet, whose iteration order is any.
IdsToDownload(sel) ==
    IF sel.ids_to_download = <<>> THEN { None }
    ELSE { Some(order) : order \in Orders(Range(sel.ids_to_download)) }

\* ---------------------------------------------- catalog records and manifests
\* A JSON value: an object (its fields), a string (here always a path, kept
\* as the parts str::split("/") yields) or a number.
JObj(fields) == [t |-> "obj", f |-> fields]

JStr(parts) == [t |-> "str", parts |-> parts]

JNum == [t |-> "num"]

NoFields == [k \in {} |-> JNum]

\* Map::get / Value::get: the field of an object, None on anything else.
Get(v, key) == IF v.t = "obj" /\ key \in DOMAIN v.f THEN Some(v.f[key]) ELSE None

\* Option::and_then(|v| v.get(key)), the `?` chain of extract_bucket_and_prefix.
AndGet(opt, key) == IF opt.some THEN Get(opt.v, key) ELSE None

\* The catalog record of a scene whose PRODUCT asset carries `href`.
ItemWithHref(href) ==
    JObj([PRODUCT |-> JObj([alternate |-> JObj([s3 |-> JObj([href |-> href])])])])

\* The catalog records the Copernicus catalogue may answer with for scene
\* id: the regular one ("/eodata/S2/<id>"), one without PRODUCT asset, one
\* whose href is no string, one whose href holds no '/', and three whose
\* PRODUCT asset lacks the alternate, the s3 or the href field.
CopernicusItems(id) ==
    { ItemWithHref(JStr(<<"", "eodata", "S2", id>>)),
      JObj(NoFields),
      ItemWithHref(JNum),
      ItemWithHref(JStr(<<"eodata">>)),
      JObj([PRODUCT |-> JObj(NoFields)]),
      JObj([PRODUCT |-> JObj([alternate |-> JObj(NoFields)])]),
      JObj([PRODUCT |-> JObj([alternate |-> JObj([s3 |-> JObj(NoFields)])])]) }

\* Vec<&str>::join("/") of the parts of a split string.
JoinSlash(parts) == IF parts = <<>> THEN <<"">> ELSE parts

\* A lookup that falls back to the default bucket when the record has no
\* storage location (the mutant used for C20).
ExtractBucketAndPrefixOrDefault(item) ==
    LET field == AndGet(AndGet(AndGet(Get(item, "PRODUCT"), "alternate"), "s3"), "href")
    IN  IF ~field.some \/ field.v.t # "str"
        THEN [kind |-> "some", bucket |-> "eodata", prefix |-> <<"S2">>]
        ELSE LET parts == field.v.parts
             IN  IF Len(parts) < 2 THEN [kind |-> "panic"]
                 ELSE [kind |-> "some", bucket |-> parts[2],
                       prefix |-> JoinSlash(SubSeq(parts, 3, Len(parts)))]

\* extract_bucket_and_prefix: Some((bucket, prefix)), None, or the panic of
\* indexing parts[1] / parts[2..] out of bounds.
ExtractBucketAndPrefix(item) ==
    LET field == AndGet(AndGet(AndGet(Get(item, "PRODUCT"), "alternate"), "s3"), "href")
    IN  IF ~field.some \/ field.v.t # "str" THEN [kind |-> "none"]
        ELSE LET parts == field.v.parts
             IN  IF Len(parts) < 2 THEN [kind |-> "panic"]
                 ELSE [kind |-> "some", bucket |-> parts[2],
                       prefix |-> JoinSlash(SubSeq(parts, 3, Len(parts)))]

\* A child node of dataObjectSection: what it carries of the parts
\* DataObject::new looks for.
Node(id, size, href, checksumName, checksum) ==
    [ID |-> id, size |-> size, href |-> href, checksumName |-> checksumName,
     checksum |-> checksum]

\* str::strip_prefix("./") on an href kept as its '/'-separated parts.
StripDotSlash(parts) ==
    IF Len(parts) >= 2 /\ parts[1] = "." THEN Some(Tail(parts)) ELSE None

\* DataObject::new
DataObjectNew(node) ==
    IF ~node.ID.some THEN None
    ELSE IF ~node.size.some \/ ~node.size.v.numeric THEN None
    ELSE IF ~node.href.some \/ ~StripDotSlash(node.href.v).some THEN None
    ELSE IF ~node.checksumName.some THEN None
    ELSE IF ~node.checksum.some THEN None
    ELSE Some([id |-> node.ID.v, filesize |-> node.size.v.n,
               relative_href |-> StripDotSlash(node.href.v).v,
               checksum_algorithm |-> node.checksumName.v,
               checksum |-> node.checksum.v])

Size(n) == Some([numeric |-> TRUE, n |-> n])

\* The nodes of the manifests below: the bands "iB2", "iTC1", "iTC2", and
\* a text node (no attribute at all).
NodeB2 == Node(Some(<<"i", "B", "2">>), Size(1), Some(<<".", "G", "B2.jp2">>),
               Some("MD5"), Some("c1"))

NodeTC1 == Node(Some(<<"i", "T", "C", "1">>), Size(2), Some(<<".", "G", "TC1.jp2">>),
                Some("MD5"), Some("c2"))

NodeTC2 == Node(Some(<<"i", "T", "C", "2">>), Size(2), Some(<<".", "Q", "TC2.jp2">>),
                Some("MD5"), Some("c3"))

NodeText == Node(None, None, None, None, None)

\* A manifest document: whether it parses as XML, whether it holds a
\* dataObjectSection, and the children of the first one.
ManifestDoc(xml, section, children) ==
    [xml |-> xml, section |-> section, children |-> children]

ManifestDocs ==
    { ManifestDoc(FALSE, FALSE, <<>>),
      ManifestDoc(TRUE, FALSE, <<>>),
      ManifestDoc(TRUE, TRUE, <<NodeText, NodeB2, NodeText, NodeTC1>>),
      ManifestDoc(TRUE, TRUE, <<NodeTC1, NodeTC2>>),
      ManifestDoc(TRUE, TRUE, <<NodeB2>>) }

Ok(v) == [ok |-> TRUE, v |-> v]

Err(message) == [ok |-> FALSE, message |-> message]

\* Manifest::parse
Parse(doc) ==
    IF ~doc.xml THEN Err(<<"xml">>)
    ELSE IF ~doc.section THEN Err(<<"Unable to locate 'dataObjectSection' tag">>)
    ELSE LET IsDataObject(node) == DataObjectNew(node).some
             kept == SelectSeq(doc.children, IsDataObject)
         IN  Ok([i \in DOMAIN kept |-> DataObjectNew(kept[i]).v])

\* filter_data_objects: the HashMap built from the entries (for an id that
\* occurs twice the later entry stays), as the set of its values.
DataObjectMap(data_objects) ==
    { data_objects[i] : i \in { i \in DOMAIN data_objects :
          \A j \in DOMAIN data_objects : j > i => data_objects[j].id # data_objects[i].id } }

\* filter_data_objects when the HashMap iterates in `order`: for each
\* product the first entry, in that order, whose id contains the product
\* id; the error of the first product without one.
FilterInOrder(prods, order) ==
    LET matches(k) == { i \in DOMAIN order : Contains(order[i].id, prods[k].id) }
        unmatched == { k \in DOMAIN prods : matches(k) = {} }
        first(S) == CHOOSE i \in S : \A j \in S : i <= j
    IN  IF unmatched # {}
        THEN Err(<<"No corresponding DataObject found in Manifest for Product with id: ",
                   prods[first(unmatched)].id>>)
        ELSE Ok([k \in DOMAIN prods |-> order[first(matches(k))]])

\* filter_data_objects: the results it may return (HashMap::iter's order is any).
FilterDataObjects(prods, data_objects) ==
    { FilterInOrder(prods, order) : order \in Orders(DataObjectMap(data_objects)) }

\* Path::file_name of a key kept as its '/'-separated segments: the last
\* component, "" and "." not counting; None when there is none or it is "..".
FileName(segments) ==
    LET IsComponent(x) == x # "" /\ x # "."
        components == SelectSeq(segments, IsComponent)
    IN  IF components = <<>> \/ Last(components) = ".." THEN None
        ELSE Some(Last(components))

\* generate_download_plan (Copernicus): format!("{}/{}", &manifest.prefix,
\* data_obj.relative_href).
ManifestKey(prefix, relative_href) == prefix \o relative_href

\* An output path without the scene's directory (the mutant used for C10).
BuildTaskNoScene(bucket, key, id) == Task(bucket, key, OutputDir, FileName(key).v)

\* generate_download_plan: file_name, output and DownloadTask::new for one
\* resolved object of scene id (file_name().unwrap() is Some here).
BuildTask(bucket, key, id) ==
    Task(bucket, key, Append(OutputDir, id), FileName(key).v)

\* A failure that returns the tasks built so far (the mutant used for C11).
FailWithPartialPlan(message) ==
    /\ gpc' = "returned"
    /\ outcome' = [kind |-> "Ok", tasks |-> tasks]

\* generate_download_plan returns Err(anyhow!(message)).
Fail(message) ==
    /\ gpc' = "returned"
    /\ outcome' = [kind |-> "Err", message |-> message]

\* generate_download_plan: the two `ok_or(anyhow!(..))?` at its start, the
\* same in both resolvers.
GenerateStart ==
    /\ gpc = "start"
    /\ \E got \in IdsToDownload(selection) :
          LET to_download == ProductsToDownload(selection)
          IN  IF ~got.some
              THEN Fail(<<"No ids to download">>) /\ UNCHANGED <<ids, products, cursor>>
              ELSE IF ~to_download.some
              THEN Fail(<<"No products selected for download">>)
                   /\ UNCHANGED <<ids, products, cursor>>
              ELSE /\ ids' = got.v
                   /\ products' = to_download.v
                   /\ cursor' = 1
                   /\ gpc' = "loop"
                   /\ UNCHANGED outcome
    /\ UNCHANGED <<pvars, xvars, selection, manifest, tasks, fetches>>

\* generate_download_plan: the head of `for id in ids_to_download`, and
\* `Ok(DownloadPlan::new(tasks))` after the loop.
GenerateLoop ==
    /\ gpc = "loop"
    /\ IF cursor > Len(ids)
       THEN /\ gpc' = "returned"
            /\ outcome' = [kind |-> "Ok", tasks |-> tasks]
       ELSE /\ gpc' = IF selection.id = CopernicusId THEN "fetch_item" ELSE "fetch_single_item"
            /\ UNCHANGED outcome
    /\ UNCHANGED <<pvars, xvars, selection, ids, products, cursor, manifest, tasks, fetches>>

\* The requests generate_download_plan issues, as logged.
CatalogGet(collection, id) == [kind |-> "catalog", collection |-> collection, id |-> id]

GetObject(bucket, key) == [kind |-> "get_object", bucket |-> bucket, key |-> key]

\* A request with the reply it got: an error, or the document received.
Fetched(req, kind, reply) == [req |-> req, kind |-> kind, reply |-> reply]

\* Manifest::fetch, first half: the catalog GET of the scene's STAC item
\* and extract_bucket_and_prefix.
FetchItem ==
    /\ gpc = "fetch_item"
    /\ \/ /\ fetches' = Append(fetches,                         \* reqwest / json error
                   Fetched(CatalogGet("SENTINEL-2", ids[cursor]), "error", <<>>))
          /\ Fail(<<"catalog fetch">>)
          /\ UNCHANGED manifest
       \/ \E item \in CopernicusItems(ids[cursor]) :
            LET found == ExtractBucketAndPrefix(item)
            IN  /\ fetches' = Append(fetches,
                      Fetched(CatalogGet("SENTINEL-2", ids[cursor]), "item", item))
                /\ IF found.kind = "none"
                   THEN Fail(<<"Error extracting bucket and directory key">>)
                        /\ UNCHANGED manifest
                   ELSE IF found.kind = "panic"
                   THEN gpc' = "panicked" /\ UNCHANGED <<manifest, outcome>>
                   ELSE /\ manifest' = [bucket |-> found.bucket, prefix |-> found.prefix]
                        /\ gpc' = "fetch_manifest"
                        /\ UNCHANGED outcome
    /\ UNCHANGED <<pvars, xvars, selection, ids, products, cursor, tasks>>

\* Manifest::fetch, second half (get_object of prefix/manifest.safe), then
\* manifest.parse()?, filter_data_objects(..)? and the loop that pushes one
\* DownloadTask per filtered data object.
FetchManifest ==
    /\ gpc = "fetch_manifest"
    /\ LET req == GetObject(manifest.bucket, Append(manifest.prefix, "manifest.safe"))
       IN  \/ /\ fetches' = Append(fetches, Fetched(req, "error", <<>>))   \* storage error
              /\ Fail(<<"get_object">>)
              /\ UNCHANGED <<tasks, cursor>>
           \/ /\ fetches' = Append(fetches, Fetched(req, "not_utf8", <<>>))
              /\ Fail(<<"utf8">>)                         \* String::from_utf8 error
              /\ UNCHANGED <<tasks, cursor>>
           \/ \E doc \in ManifestDocs :
                LET data_objects == Parse(doc)
                IN  /\ fetches' = Append(fetches, Fetched(req, "manifest", doc))
                    /\ IF ~data_objects.ok
                       THEN Fail(data_objects.message) /\ UNCHANGED <<tasks, cursor>>
                       ELSE \E filtered \in FilterDataObjects(products, data_objects.v) :
                              IF ~filtered.ok
                              THEN Fail(filtered.message) /\ UNCHANGED <<tasks, cursor>>
                              ELSE LET keyOf(k) == ManifestKey(manifest.prefix,
                                                              filtered.v[k].relative_href)
                                   IN  IF \E k \in DOMAIN filtered.v : ~FileName(keyOf(k)).some
                                       THEN /\ gpc' = "panicked"
                                            /\ UNCHANGED <<tasks, cursor, outcome>>
                                       ELSE /\ tasks' = tasks \o
                                                 [k \in DOMAIN filtered.v |->
                                                     BuildTask(manifest.bucket, keyOf(k),
                                                               ids[cursor])]
                                            /\ cursor' = cursor + 1
                                            /\ gpc' = "loop"
                                            /\ UNCHANGED outcome
    /\ UNCHANGED <<pvars, xvars, selection, ids, products, manifest>>

\* ------------------------------------------------------ Element84 resolver
\* A URL is kept as the sequence of its pieces: "https://", ".", "/", "\n"
\* and the runs of other characters between them.
Https == "https://"

\* format!-style assembly of a URL from a leading text, a scheme and the
\* bucket, region and key texts.
UrlOf(lead, scheme, bucket, region, key) ==
    lead \o <<scheme>> \o bucket \o <<".", "s3", ".">> \o region
         \o <<".", "amazonaws", ".", "com", "/">> \o key

AssetUrl(file) == UrlOf(<<>>, Https, <<"e84">>, <<"us-west-2">>, <<"c1", "/", file>>)

\* The regex classes [^.] and . (any character but a line feed).
NotDot(c) == c # "."

AnyChar(c) == c # "\n"

\* The end of the longest run of characters of a class that starts at p
\* (p - 1 when s[p] is not of the class): a greedy `+` that is followed by
\* something the class excludes, or by nothing.
RunEnd(s, p, Class(_)) ==
    CHOOSE q \in (p - 1)..Len(s) :
        /\ \A n \in p..q : Class(s[n])
        /\ q = Len(s) \/ ~Class(s[q + 1])

\* The literal lit stands in s at position p.
LiteralAt(s, p, lit) ==
    /\ p + Len(lit) - 1 <= Len(s)
    /\ SubSeq(s, p, p + Len(lit) - 1) = lit

\* The match of the pattern
\*   https://(?<bucket>[^.]+)\.s3\.(?<region>[^.]+)\.amazonaws\.com/(?<key>.+)
\* that starts at position p of s, if there is one.
MatchAt(s, p) ==
    LET bucketEnd == RunEnd(s, p + 1, NotDot)
        regionEnd == RunEnd(s, bucketEnd + 4, NotDot)
        keyEnd == RunEnd(s, regionEnd + 6, AnyChar)
    IN  IF /\ s[p] = Https
           /\ bucketEnd >= p + 1
           /\ LiteralAt(s, bucketEnd + 1, <<".", "s3", ".">>)
           /\ regionEnd >= bucketEnd + 4
           /\ LiteralAt(s, regionEnd + 1, <<".", "amazonaws", ".", "com", "/">>)
           /\ keyEnd >= regionEnd + 6
        THEN Some([bucket |-> SubSeq(s, p + 1, bucketEnd),
                   region |-> SubSeq(s, bucketEnd + 4, regionEnd),
                   key |-> SubSeq(s, regionEnd + 6, keyEnd)])
        ELSE None

\* Regex::captures: the match at the leftmost position that has one (the
\* pattern carries no ^ or $, so the search tries every position).
Captures(s) ==
    LET starts == { p \in DOMAIN s : MatchAt(s, p).some }
    IN  IF starts = {} THEN None
        ELSE MatchAt(s, CHOOSE p \in starts : \A q \in starts : p <= q)

\* get_s3_url_parts: the captures as bucket, region and key, else the error
\* naming the URL.
GetS3UrlParts(s) ==
    IF Captures(s).some THEN Ok(Captures(s).v)
    ELSE Err(<<"No regex matches found for: ", s>>)

\* The string a run of pieces spells: the piece itself when it is a single
\* one, "" when there is none (a longer run is kept as the run).
Text(run) == IF run = <<>> THEN "" ELSE IF Len(run) = 1 THEN run[1] ELSE run

\* The '/'-separated segments of a key kept as its pieces.
RECURSIVE SplitSlash(_)
SplitSlash(s) ==
    LET slashes == { n \in DOMAIN s : s[n] = "/" }
        first == CHOOSE n \in slashes : \A o \in slashes : n <= o
    IN  IF slashes = {} THEN <<Text(s)>>
        ELSE <<Text(SubSeq(s, 1, first - 1))>> \o SplitSlash(SubSeq(s, first + 1, Len(s)))

Asset(href) == [href |-> href]

\* The catalog records Earth Search may answer with: assets for both
\* products; for "TC" alone; one whose key "xTC" only contains "TC"; one
\* whose "TC" asset is no S3 URL; one whose "TC" asset is an S3 URL after
\* some other text.
Element84Items ==
    { (<<"B", "2">> :> Asset(AssetUrl("B2.tif"))) @@ (<<"T", "C">> :> Asset(AssetUrl("TC.tif"))),
      (<<"T", "C">> :> Asset(AssetUrl("TC.tif"))),
      (<<"B", "2">> :> Asset(AssetUrl("B2.tif"))) @@ (<<"x", "T", "C">> :> Asset(AssetUrl("TC.tif"))),
      (<<"B", "2">> :> Asset(AssetUrl("B2.tif")))
          @@ (<<"T", "C">> :> Asset(<<"http://", "example", ".", "org", "/", "TC.tif">>)),
      (<<"B", "2">> :> Asset(AssetUrl("B2.tif")))
          @@ (<<"T", "C">> :> Asset(<<"see ">> \o AssetUrl("TC.tif"))) }

\* A lookup that accepts a key containing the product id (the mutant used
\* for C15).
MapProductsToAssetsContaining(assets, prods) ==
    IF \E k \in DOMAIN prods : \A key \in DOMAIN assets : ~Contains(key, prods[k].id)
    THEN None
    ELSE Some([k \in DOMAIN prods |->
                  assets[CHOOSE key \in DOMAIN assets : Contains(key, prods[k].id)]])

\* map_products_to_assets: the asset under each product id, None when one
\* product id is no key of item.assets.
MapProductsToAssets(assets, prods) ==
    IF \E k \in DOMAIN prods : prods[k].id \notin DOMAIN assets THEN None
    ELSE Some([k \in DOMAIN prods |-> assets[prods[k].id]])

\* generate_download_plan (Element84): fetch_single_item, then
\* map_products_to_assets(..).ok_or(..)?, and for each asset
\* get_s3_url_parts(&asset.href)? and the push of its DownloadTask.
FetchSingleItem ==
    /\ gpc = "fetch_single_item"
    /\ LET req == CatalogGet("sentinel-2-c1-l2a", ids[cursor])
       IN  \/ /\ fetches' = Append(fetches, Fetched(req, "error", <<>>))
              /\ Fail(<<"catalog fetch">>)
              /\ UNCHANGED <<tasks, cursor>>
           \/ \E assets \in Element84Items :
                LET found == MapProductsToAssets(assets, products)
                    parts(k) == GetS3UrlParts(found.v[k].href)
                    bucketOf(k) == Text(parts(k).v.bucket)
                    keyOf(k) == SplitSlash(parts(k).v.key)
                    bad == { k \in DOMAIN found.v : ~parts(k).ok }
                IN  /\ fetches' = Append(fetches, Fetched(req, "item", assets))
                    /\ IF ~found.some
                       THEN Fail(<<"Did not find matching assets for specified products">>)
                            /\ UNCHANGED <<tasks, cursor>>
                       ELSE IF bad # {}
                       THEN Fail(parts(CHOOSE k \in bad : \A j \in bad : k <= j).message)
                            /\ UNCHANGED <<tasks, cursor>>
                       ELSE IF \E k \in DOMAIN found.v : ~FileName(keyOf(k)).some
                       THEN gpc' = "panicked" /\ UNCHANGED <<tasks, cursor, outcome>>
                       ELSE /\ tasks' = tasks \o
                                 [k \in DOMAIN found.v |->
                                     BuildTask(bucketOf(k), keyOf(k), ids[cursor])]
                            /\ cursor' = cursor + 1
                            /\ gpc' = "loop"
                            /\ UNCHANGED outcome
    /\ UNCHANGED <<pvars, xvars, selection, ids, products, manifest>>

\* execute is not part of a run of generate_download_plan.
ExecutorIdle ==
    /\ plan = <<>>
    /\ remote = [k \in Keys |-> <<>>]
    /\ names = [p \in Paths |-> NoFile]
    /\ data = <<>>
    /\ dirs = {}
    /\ InitExecutors({1})

InitBuild ==
    /\ SelectionIdle
    /\ ExecutorIdle
    /\ ParserIdle
    /\ StoreIdle
    /\ ManifestIdle
    /\ selection \in Selections
    /\ gpc = "start"
    /\ ids = <<>>
    /\ products = <<>>
    /\ cursor = 0
    /\ manifest = [bucket |-> "", prefix |-> <<>>]
    /\ tasks = <<>>
    /\ outcome = [kind |-> "none"]
    /\ fetches = <<>>

NextBuild ==
    \/ GenerateStart
    \/ GenerateLoop
    \/ FetchItem
    \/ FetchManifest
    \/ FetchSingleItem

SpecBuild == InitBuild /\ [][NextBuild]_vars

\* ------------------------------------------- get_s3_url_parts on its own
\* The URLs get_s3_url_parts is called with. Each is assembled from a lead
\* before the scheme (nothing, some words, another scheme), a scheme, a
\* bucket and a region (empty, a label, or holding a '.' or a '/') and a
\* key (empty, a name, a path); some are URLs of other hosts.
UrlInputs ==
    { UrlOf(lead, scheme, bucket, region, key) :
          lead \in { <<>>, <<"see ">>, <<Https>> },
          scheme \in { Https, "http://" },
          bucket \in { <<>>, <<"e84">>, <<"my", ".", "b">>, <<"a", "/", "b">> },
          region \in { <<>>, <<"us-west-2">>, <<"eu", ".", "x">> },
          key \in { <<>>, <<"k">>, <<"c1", "/", "B08", ".", "tif">> } }
    \cup { <<>>,
           <<Https, "example", ".", "org", "/", "k">>,
           <<Https, "e84", ".", "s3", ".", "us-west-2", ".", "amazonaws", ".", "org", "/", "k">>,
           <<Https, "e84", ".", "s3", "-", "us-west-2", ".", "amazonaws", ".", "com", "/", "k">> }

\* A call of get_s3_url_parts(url).
ParseUrl ==
    /\ parsed.kind = "none"
    /\ parsed' = [kind |-> "returned", result |-> GetS3UrlParts(url)]
    /\ UNCHANGED <<xvars, bvars, url, svars, mvars, tvars>>

InitUrl ==
    /\ SelectionIdle
    /\ ExecutorIdle
    /\ BuilderIdle
    /\ StoreIdle
    /\ ManifestIdle
    /\ url \in UrlInputs
    /\ parsed = [kind |-> "none"]

NextUrl == ParseUrl

SpecUrl == InitUrl /\ [][NextUrl]_vars

\* ------------------------------------ DownloadPlan::write / DownloadPlan::read
\* A JSON text is kept as the sequence of its characters, a field name
\* counting as one; a String of a plan as the sequence of its characters.
MaxTasks == 2       \* longest task list of a stored plan

Quote == "\""

Backslash == "\\"

NewLine == "\n"

Space == " "

\* serde_json's string formatter: '"' and '\' are written after a '\'.
RECURSIVE Escape(_)
Escape(chars) ==
    IF chars = <<>> THEN <<>>
    ELSE (IF Head(chars) \in {Quote, Backslash}
          THEN <<Backslash, Head(chars)>> ELSE <<Head(chars)>>) \o Escape(Tail(chars))

\* A String written between quotes as it is (the mutant used for C17).
JsonStringRaw(chars) == <<Quote>> \o chars \o <<Quote>>

\* A String, serialized.
JsonString(chars) == <<Quote>> \o Escape(chars) \o <<Quote>>

\* `"name": value`, as the pretty formatter writes an object's field.
JsonField(name, value) == <<Quote, name, Quote, ":", Space>> \o value

\* The items of a non-empty array or object, one per line.
RECURSIVE JsonLines(_)
JsonLines(items) ==
    IF Len(items) = 1 THEN items[1]
    ELSE items[1] \o <<",", NewLine>> \o JsonLines(Tail(items))

\* #[derive(Serialize)] of DownloadTask.
TaskToJson(task) ==
    <<"{", NewLine>>
    \o JsonLines(<<JsonField("bucket", JsonString(task.bucket)),
                   JsonField("key", JsonString(task.key)),
                   JsonField("output", JsonString(task.output))>>)
    \o <<NewLine, "}">>

TasksToJson(ts) ==
    IF ts = <<>> THEN <<"[", "]">>
    ELSE <<"[", NewLine>> \o JsonLines([n \in DOMAIN ts |-> TaskToJson(ts[n])])
         \o <<NewLine, "]">>

\* serde_json::to_string_pretty(self) of a DownloadPlan.
ToJson(p) ==
    <<"{", NewLine>>
    \o JsonLines(<<JsonField("selection_id", JsonString(p.selection_id)),
                   JsonField("tasks", TasksToJson(p.tasks))>>)
    \o <<NewLine, "}">>

\* The parser's position after the whitespace that starts at p.
SkipWs(t, p) ==
    CHOOSE q \in p..(Len(t) + 1) :
        /\ \A n \in p..(q - 1) : t[n] \in {NewLine, Space}
        /\ q > Len(t) \/ t[q] \notin {NewLine, Space}

\* The position after the characters lit that stand at q; None when
\* something else stands there.
ExpectAt(t, q, lit) == IF LiteralAt(t, q, lit) THEN Some(q + Len(lit)) ELSE None

\* The same, the whitespace before the characters skipped.
Expect(t, p, lit) == ExpectAt(t, SkipWs(t, p), lit)

\* A result of a parsing step: the value read and the position after it.
Read(v, next) == [some |-> TRUE, v |-> v, next |-> next]

\* The step after r that reads the characters lit and keeps r's value.
Keep(e, v) == IF e.some THEN Read(v, e.v) ELSE None

ExpectIn(t, r, lit) == IF r.some THEN Keep(Expect(t, r.next, lit), r.v) ELSE None

\* The step that adds the value read by f to the values read so far.
Push(f, acc) == IF f.some THEN Read(Append(acc, f.v), f.next) ELSE None

\* The characters of a string up to its closing '"', escapes undone.
RECURSIVE ReadChars(_, _, _)
ReadChars(t, p, acc) ==
    IF p > Len(t) \/ t[p] = NewLine THEN None
    ELSE IF t[p] = Quote THEN Read(acc, p + 1)
    ELSE IF t[p] = Backslash
    THEN IF p + 1 <= Len(t) /\ t[p + 1] \in {Quote, Backslash, "/"}
         THEN ReadChars(t, p + 2, Append(acc, t[p + 1]))
         ELSE None
    ELSE ReadChars(t, p + 1, Append(acc, t[p]))

CharsAfter(t, open) == IF open.some THEN ReadChars(t, open.v, <<>>) ELSE None

\* A String value.
ReadString(t, p) == CharsAfter(t, Expect(t, p, <<Quote>>))

StringAfter(t, r) == IF r.some THEN ReadString(t, r.next) ELSE None

\* `"name": "value"` as a field of an object.
ReadStringField(t, p, name) ==
    StringAfter(t, ExpectIn(t, ExpectIn(t, Read(<<>>, p), <<Quote, name, Quote>>), <<":">>))

\* The same after the step r, its value added to r's.
FieldInto(t, r, name) ==
    IF r.some THEN Push(ReadStringField(t, r.next, name), r.v) ELSE None

TaskOf(r) ==
    IF r.some
    THEN Read([bucket |-> r.v[1], key |-> r.v[2], output |-> r.v[3]], r.next)
    ELSE None

\* #[derive(Deserialize)] of DownloadTask, on the fields in the order they
\* are written.
ReadTask(t, p) ==
    TaskOf(
      ExpectIn(t,
        FieldInto(t,
          ExpectIn(t,
            FieldInto(t,
              ExpectIn(t,
                FieldInto(t, ExpectIn(t, Read(<<>>, p), <<"{">>), "bucket"),
                <<",">>),
              "key"),
            <<",">>),
          "output"),
        <<"}">>))

\* The tasks of an array after its '[' and the tasks in acc.
RECURSIVE ReadTaskItems(_, _, _)

\* After a task: the array's end, or a ',' and the next task.
AfterTask(t, acc, close, comma) ==
    IF close.some THEN Read(acc, close.v)
    ELSE IF comma.some THEN ReadTaskItems(t, comma.v, acc)
    ELSE None

TaskInto(t, task, acc) ==
    IF ~task.some THEN None
    ELSE AfterTask(t, Append(acc, task.v),
                   Expect(t, task.next, <<"]">>), Expect(t, task.next, <<",">>))

ReadTaskItems(t, p, acc) == TaskInto(t, ReadTask(t, p), acc)

ArrayBody(t, p, close) ==
    IF close.some THEN Read(<<>>, close.v) ELSE ReadTaskItems(t, p, <<>>)

TasksAfter(t, open) ==
    IF open.some THEN ArrayBody(t, open.v, Expect(t, open.v, <<"]">>)) ELSE None

\* Vec<DownloadTask>
ReadTasks(t, p) == TasksAfter(t, Expect(t, p, <<"[">>))

TasksInto(t, r) == IF r.some THEN Push(ReadTasks(t, r.next), r.v) ELSE None

\* The plan of the fields read, or an error (trailing characters after the
\* value are one).
PlanOf(t, r) ==
    IF r.some /\ SkipWs(t, r.next) > Len(t)
    THEN Ok([selection_id |-> r.v[1], tasks |-> r.v[2]])
    ELSE Err(<<"json">>)

\* serde_json::from_str::<DownloadPlan>(&content).
FromJson(t) ==
    PlanOf(t,
      ExpectIn(t,
        TasksInto(t,
          ExpectIn(t,
            ExpectIn(t,
              ExpectIn(t,
                FieldInto(t, ExpectIn(t, Read(<<>>, 1), <<"{">>), "selection_id"),
                <<",">>),
              <<Quote, "tasks", Quote>>),
            <<":">>)),
        <<"}">>))

\* A file at `path`, or none.
NoPlanFile == [exists |-> FALSE, content |-> <<>>]

PlanFile(content) == [exists |-> TRUE, content |-> content]

\* The plans written: DownloadPlan { selection_id, tasks } with
\* DownloadTask { bucket, key, output }, every field a String. Some strings
\* hold a '"', a '\', a ' ' or a '/'.
StoredTasks ==
    { [bucket |-> <<"b">>, key |-> <<"k">>, output |-> <<"o">>],
      [bucket |-> <<"b">>, key |-> <<"k", "/", Quote, "x">>,
       output |-> <<"o", Backslash, Space, "f">>] }

StoredPlans ==
    [selection_id : { <<CopernicusId>>, <<Element84Id>> },
     tasks : SeqsUpTo(StoredTasks, MaxTasks)]

\* What `path` holds before the first write: nothing, some other text, or
\* an earlier plan.
InitialPlanFiles ==
    { NoPlanFile,
      PlanFile(<<"{", "}">>),
      PlanFile(ToJson([selection_id |-> <<Element84Id>>,
                       tasks |-> [n \in 1..2 |-> [bucket |-> <<"b">>, key |-> <<"k">>,
                                                  output |-> <<"o">>]]])) }

\* fs::write(path, content): the file is created or truncated, then holds
\* content.
FsWrite(file, content) == PlanFile(content)

\* DownloadPlan::write: Ok(()) with the file written, or the io error of
\* fs::write, the file then being as before or created empty.
WritePlan ==
    /\ \E p \in StoredPlans :
          \/ /\ planfile' = FsWrite(planfile, ToJson(p))
             /\ stored' = [kind |-> "Ok", plan |-> p]
          \/ /\ planfile' \in {planfile, PlanFile(<<>>)}
             /\ stored' = [kind |-> "Err", plan |-> p]
    /\ loaded' = [kind |-> "none"]
    /\ UNCHANGED <<xvars, bvars, url, parsed, mvars, tvars>>

\* DownloadPlan::read: fs::read_to_string(path)?, serde_json::from_str(..)?.
ReadPlan ==
    /\ loaded' = [kind |-> "returned",
                  result |-> IF ~planfile.exists THEN Err(<<"io">>)
                             ELSE FromJson(planfile.content)]
    /\ UNCHANGED <<xvars, bvars, url, parsed, mvars, tvars, planfile, stored>>

InitStore ==
    /\ SelectionIdle
    /\ ExecutorIdle
    /\ BuilderIdle
    /\ ParserIdle
    /\ ManifestIdle
    /\ planfile \in InitialPlanFiles
    /\ stored = [kind |-> "none"]
    /\ loaded = [kind |-> "none"]

NextStore == WritePlan \/ ReadPlan

SpecStore == InitStore /\ [][NextStore]_vars

\* ------------------- ImageSelection::from_template / write / ImageSelection::read
\* A TOML text is kept like a JSON text: the sequence of its characters, a
\* key, a keyword or a table header's bracket pair counting as one.
TripleQuote == <<Quote, Quote, Quote>>

\* The escapes of a basic string: '"', '\' and, on one line, the line feed.
RECURSIVE TomlEscape(_, _)
TomlEscape(chars, multi) ==
    IF chars = <<>> THEN <<>>
    ELSE (IF Head(chars) \in {Quote, Backslash} THEN <<Backslash, Head(chars)>>
          ELSE IF Head(chars) = NewLine /\ ~multi THEN <<Backslash, "n">>
          ELSE <<Head(chars)>>) \o TomlEscape(Tail(chars), multi)

\* A String as a basic string on one line.
TomlString(chars) == <<Quote>> \o TomlEscape(chars, FALSE) \o <<Quote>>

\* The pretty form without the line feed after the opening quotes of a
\* multi-line string (the mutant used for C21).
TomlStringPrettyNoBreak(chars) ==
    IF \E n \in DOMAIN chars : chars[n] = NewLine
    THEN TripleQuote \o TomlEscape(chars, TRUE) \o TripleQuote
    ELSE TomlString(chars)

\* A String as the pretty serializer writes it: one with a line feed becomes
\* a multi-line basic string, whose first line feed after the opening
\* quotes is not part of the value.
TomlStringPretty(chars) ==
    IF \E n \in DOMAIN chars : chars[n] = NewLine
    THEN TripleQuote \o <<NewLine>> \o TomlEscape(chars, TRUE) \o TripleQuote
    ELSE TomlString(chars)

TomlBool(b) == IF b THEN <<"true">> ELSE <<"false">>

\* `key = value` and the end of its line.
KeyValue(name, value) == <<name, Space, "=", Space>> \o value \o <<NewLine>>

\* An array of strings on one line: ["a", "b"].
RECURSIVE InlineItems(_)
InlineItems(items) ==
    IF items = <<>> THEN <<>>
    ELSE TomlString(items[1])
         \o (IF Len(items) > 1 THEN <<",", Space>> ELSE <<>>) \o InlineItems(Tail(items))

TomlArray(items) == <<"[">> \o InlineItems(items) \o <<"]">>

\* The pretty form: an item per line, each followed by a comma.
RECURSIVE PrettyItems(_)
PrettyItems(items) ==
    IF items = <<>> THEN <<>>
    ELSE <<Space>> \o TomlStringPretty(items[1]) \o <<",", NewLine>> \o PrettyItems(Tail(items))

TomlArrayPretty(items) ==
    IF items = <<>> THEN <<"[", "]">> ELSE <<"[", NewLine>> \o PrettyItems(items) \o <<"]">>

\* The header of one table of the array of tables `products`.
ProductsHeader == <<"[[", "products", "]]">>

\* #[derive(Serialize)] of Product under to_string_pretty: a [[products]]
\* table with the fields in the order of the struct.
ProductToToml(p) ==
    <<NewLine>> \o ProductsHeader \o <<NewLine>>
    \o KeyValue("id", TomlStringPretty(p.id))
    \o KeyValue("name", TomlStringPretty(p.name))
    \o KeyValue("download", TomlBool(p.download))

RECURSIVE ProductsToToml(_)
ProductsToToml(ps) ==
    IF ps = <<>> THEN <<>> ELSE ProductToToml(ps[1]) \o ProductsToToml(Tail(ps))

\* toml::to_string_pretty(self) of an ImageSelection: the fields in the
\* order of the struct, `products` last.
ToTomlPretty(s) ==
    KeyValue("id", TomlStringPretty(s.id))
    \o KeyValue("provider", TomlStringPretty(s.provider))
    \o KeyValue("name", TomlStringPretty(s.name))
    \o KeyValue("description", TomlStringPretty(s.description))
    \o KeyValue("docs", TomlStringPretty(s.docs))
    \o KeyValue("ids_to_download", TomlArrayPretty(s.ids_to_download))
    \o (IF s.products = <<>> THEN KeyValue("products", <<"[", "]">>)
        ELSE ProductsToToml(s.products))

\* A product table of a toml::Table, written: its keys in the map's order.
TableProduct(p) ==
    <<NewLine>> \o ProductsHeader \o <<NewLine>>
    \o KeyValue("download", TomlBool(p.download))
    \o KeyValue("id", TomlString(p.id))
    \o KeyValue("name", TomlString(p.name))

RECURSIVE TableProducts(_)
TableProducts(ps) ==
    IF ps = <<>> THEN <<>> ELSE TableProduct(ps[1]) \o TableProducts(Tail(ps))

\* `key = "value"` of a table that has the key, nothing of one that lacks it.
TableString(table, name) ==
    IF name \in DOMAIN table THEN KeyValue(name, TomlString(table[name])) ELSE <<>>

\* table.to_string() of a toml::Table: the keys in the order of the map
\* (sorted), the values before the tables.
TableToString(table) ==
    TableString(table, "description")
    \o TableString(table, "docs")
    \o TableString(table, "id")
    \o KeyValue("ids_to_download", TomlArray(table.ids_to_download))
    \o TableString(table, "name")
    \o (IF table.products = <<>> THEN KeyValue("products", <<"[", "]">>) ELSE <<>>)
    \o TableString(table, "provider")
    \o TableProducts(table.products)

\* The values of a parsed document.
StringValue(chars) == [type |-> "string", v |-> chars]

BoolValue(b) == [type |-> "bool", v |-> b]

ArrayValue(items) == [type |-> "array", v |-> items]

\* A table without keys.
EmptyTable == [k \in {} |-> StringValue(<<>>)]

\* The characters of a basic string up to its closing quotes, escapes
\* undone. In a multi-line string a line feed and a lone '"' stand for
\* themselves.
RECURSIVE ReadBasic(_, _, _, _)
ReadBasic(t, p, acc, multi) ==
    IF p > Len(t) THEN None
    ELSE IF multi /\ LiteralAt(t, p, TripleQuote) THEN Read(StringValue(acc), p + 3)
    ELSE IF ~multi /\ t[p] = Quote THEN Read(StringValue(acc), p + 1)
    ELSE IF ~multi /\ t[p] = NewLine THEN None
    ELSE IF t[p] = Backslash
    THEN IF p + 1 <= Len(t) /\ t[p + 1] \in {Quote, Backslash}
         THEN ReadBasic(t, p + 2, Append(acc, t[p + 1]), multi)
         ELSE IF p + 1 <= Len(t) /\ t[p + 1] = "n"
         THEN ReadBasic(t, p + 2, Append(acc, NewLine), multi)
         ELSE None
    ELSE ReadBasic(t, p + 1, Append(acc, t[p]), multi)

\* A string value at q: a multi-line basic string (the line feed right
\* after its opening quotes is dropped) or a basic string.
ReadTomlString(t, q) ==
    IF LiteralAt(t, q, TripleQuote)
    THEN ReadBasic(t, IF LiteralAt(t, q + 3, <<NewLine>>) THEN q + 4 ELSE q + 3, <<>>, TRUE)
    ELSE IF LiteralAt(t, q, <<Quote>>) THEN ReadBasic(t, q + 1, <<>>, FALSE)
    ELSE None

\* The strings of an array after its '[' and the strings in acc; a comma
\* may follow the last one.
RECURSIVE ReadItems(_, _, _)

AfterItem(t, q, acc) ==
    IF LiteralAt(t, q, <<",">>) THEN ReadItems(t, q + 1, acc)
    ELSE IF LiteralAt(t, q, <<"]">>) THEN Read(ArrayValue(acc), q + 1)
    ELSE None

ItemInto(t, item, acc) ==
    IF item.some THEN AfterItem(t, SkipWs(t, item.next), Append(acc, item.v.v)) ELSE None

ItemsAt(t, q, acc) ==
    IF LiteralAt(t, q, <<"]">>) THEN Read(ArrayValue(acc), q + 1)
    ELSE ItemInto(t, ReadTomlString(t, q), acc)

ReadItems(t, p, acc) == ItemsAt(t, SkipWs(t, p), acc)

\* A value at q: a string, a boolean or an array of strings.
ReadValue(t, q) ==
    IF LiteralAt(t, q, <<"true">>) THEN Read(BoolValue(TRUE), q + 1)
    ELSE IF LiteralAt(t, q, <<"false">>) THEN Read(BoolValue(FALSE), q + 1)
    ELSE IF LiteralAt(t, q, <<"[">>) THEN ReadItems(t, q + 1, <<>>)
    ELSE ReadTomlString(t, q)

\* The document read so far: the root table and the tables of `products`.
Document(top, prods) == [top |-> top, prods |-> prods]

\* The document with `key = value` read: the pair goes to the table whose
\* header was read last, or to the root table before any header. A key
\* given twice is an error.
Insert(acc, name, value) ==
    IF acc.prods = <<>>
    THEN IF name \in DOMAIN acc.top THEN None
         ELSE Some(Document((name :> value) @@ acc.top, acc.prods))
    ELSE IF name \in DOMAIN Last(acc.prods) THEN None
         ELSE Some(Document(acc.top,
                            [acc.prods EXCEPT ![Len(acc.prods)] = (name :> value) @@ @]))

\* The lines of a document from p on, after the ones read into acc.
RECURSIVE ReadEntries(_, _, _)

EntryInto(t, inserted, next) ==
    IF inserted.some THEN ReadEntries(t, next, inserted.v) ELSE None

ValueInto(t, acc, name, value) ==
    IF value.some THEN EntryInto(t, Insert(acc, name, value.v), value.next) ELSE None

ValueAfter(t, acc, name, eq) ==
    IF eq.some THEN ValueInto(t, acc, name, ReadValue(t, SkipWs(t, eq.v))) ELSE None

EntriesAt(t, q, acc) ==
    IF q > Len(t) THEN Some(acc)
    ELSE IF LiteralAt(t, q, ProductsHeader)
    THEN IF "products" \in DOMAIN acc.top THEN None
         ELSE ReadEntries(t, q + 3, Document(acc.top, Append(acc.prods, EmptyTable)))
    ELSE ValueAfter(t, acc, t[q], Expect(t, q + 1, <<"=">>))

ReadEntries(t, p, acc) == EntriesAt(t, SkipWs(t, p), acc)

HasValue(table, name, type) == name \in DOMAIN table /\ table[name].type = type

\* #[derive(Deserialize)] of Product
IsProduct(table) ==
    /\ HasValue(table, "id", "string")
    /\ HasValue(table, "name", "string")
    /\ HasValue(table, "download", "bool")

\* #[derive(Deserialize)] of ImageSelection: every field is required.
IsSelection(doc) ==
    /\ \A name \in {"id", "provider", "name", "description", "docs"} :
          HasValue(doc.top, name, "string")
    /\ HasValue(doc.top, "ids_to_download", "array")
    /\ \/ doc.prods # <<>> /\ \A n \in DOMAIN doc.prods : IsProduct(doc.prods[n])
       \/ doc.prods = <<>> /\ HasValue(doc.top, "products", "array")
                           /\ doc.top["products"].v = <<>>

SelectionOf(doc) ==
    [id |-> doc.top["id"].v,
     provider |-> doc.top["provider"].v,
     name |-> doc.top["name"].v,
     description |-> doc.top["description"].v,
     docs |-> doc.top["docs"].v,
     ids_to_download |-> doc.top["ids_to_download"].v,
     products |-> [n \in DOMAIN doc.prods |->
                     [id |-> doc.prods[n]["id"].v,
                      name |-> doc.prods[n]["name"].v,
                      download |-> doc.prods[n]["download"].v]]]

Deserialize(read) ==
    IF read.some /\ IsSelection(read.v) THEN Ok(SelectionOf(read.v)) ELSE Err(<<"toml">>)

\* toml::from_str::<ImageSelection>(&content)
FromToml(t) == Deserialize(ReadEntries(t, 1, Document(EmptyTable, <<>>)))

\* The strings of the templates: plain ones, one with a '"' and a '\', and
\* ones with line feeds, as the description of sentinel2level2a_template.
TemplateIds == { <<CopernicusId>>, <<Element84Id>> }

TemplateTexts == { <<"d">>, <<"l", NewLine, "m", Quote>>, <<NewLine, "x", Backslash, "n">> }

TemplateSceneIds == { <<"S", "1">>, <<"S", Space, Quote>> }

TemplateProducts ==
    { [id |-> <<"B", "2">>, name |-> <<"R">>, download |-> FALSE],
      [id |-> <<"T", "C">>, name |-> <<"T", Space, "C">>, download |-> TRUE] }

\* The tables from_template is given: the keys of an ImageSelection, and
\* tables that lack the key `docs`.
Templates ==
    UNION { { [id |-> id, provider |-> <<"C">>, name |-> <<"S", "2">>, description |-> text,
               docs |-> <<"h">>, ids_to_download |-> scenes, products |-> ps],
              [id |-> id, provider |-> <<"C">>, name |-> <<"S", "2">>, description |-> text,
               ids_to_download |-> scenes, products |-> ps] } :
            id \in TemplateIds, text \in TemplateTexts,
            scenes \in SeqsUpTo(TemplateSceneIds, MaxIds),
            ps \in SeqsUpTo(TemplateProducts, MaxProducts) }

\* What `path` holds before the first write: nothing, or some other text.
InitialSelectionFiles ==
    { [exists |-> FALSE, content |-> <<>>],
      [exists |-> TRUE, content |-> KeyValue("id", TomlString(<<"o">>))] }

\* ImageSelection::from_template: `toml::from_str(&table.to_string())
\* .expect(..)` panics on a table that is no ImageSelection.
FromTemplate ==
    /\ built.kind = "none"
    /\ \E table \in Templates :
          built' = IF FromToml(TableToString(table)).ok
                   THEN [kind |-> "built", table |-> table,
                         selection |-> FromToml(TableToString(table)).v]
                   ELSE [kind |-> "panicked", table |-> table]
    /\ UNCHANGED <<xvars, bvars, url, parsed, svars, mvars, selfile, selwrote, selread>>

\* ImageSelection::write: Ok(()) with the file written, or the io error of
\* fs::write, the file then being as before or created empty.
WriteSelection ==
    /\ built.kind = "built"
    /\ \/ /\ selfile' = [exists |-> TRUE, content |-> ToTomlPretty(built.selection)]
          /\ selwrote' = [kind |-> "Ok"]
       \/ /\ selfile' \in {selfile, [exists |-> TRUE, content |-> <<>>]}
          /\ selwrote' = [kind |-> "Err"]
    /\ selread' = [kind |-> "none"]
    /\ UNCHANGED <<xvars, bvars, url, parsed, svars, mvars, built>>

\* ImageSelection::read: fs::read_to_string(path)?, toml::from_str(..)?.
ReadSelection ==
    /\ selread' = [kind |-> "returned",
                   result |-> IF ~selfile.exists THEN Err(<<"io">>)
                              ELSE FromToml(selfile.content)]
    /\ UNCHANGED <<xvars, bvars, url, parsed, svars, mvars, built, selfile, selwrote>>

InitSelection ==
    /\ ExecutorIdle
    /\ BuilderIdle
    /\ ParserIdle
    /\ StoreIdle
    /\ ManifestIdle
    /\ built = [kind |-> "none"]
    /\ selfile \in InitialSelectionFiles
    /\ selwrote = [kind |-> "none"]
    /\ selread = [kind |-> "none"]

NextSelection == FromTemplate \/ WriteSelection \/ ReadSelection

SpecSelection == InitSelection /\ [][NextSelection]_vars

\* ------------------------------------------------ Manifest::parse on its own
MaxChildren == 2    \* most children of a dataObjectSection

\* The children a dataObjectSection is made of: whole data objects, a text
\* node, and data objects that lack the ID, the byteStream size, a numeric
\* size, the fileLocation href, the "./" at the href's start, the
\* checksumName or the checksum's text.
ParseNodes ==
    { NodeB2, NodeTC1, NodeText,
      Node(None, Size(1), Some(<<".", "G", "B3.jp2">>), Some("MD5"), Some("c4")),
      Node(Some(<<"i", "B", "4">>), None, Some(<<".", "G", "B4.jp2">>), Some("MD5"), Some("c5")),
      Node(Some(<<"i", "B", "5">>), Some([numeric |-> FALSE, n |-> 0]),
           Some(<<".", "G", "B5.jp2">>), Some("MD5"), Some("c6")),
      Node(Some(<<"i", "B", "6">>), Size(1), None, Some("MD5"), Some("c7")),
      Node(Some(<<"i", "B", "7">>), Size(1), Some(<<"G", "B7.jp2">>), Some("MD5"), Some("c8")),
      Node(Some(<<"i", "B", "8">>), Size(1), Some(<<".", "G", "B8.jp2">>), None, Some("c9")),
      Node(Some(<<"i", "B", "9">>), Size(1), Some(<<".", "G", "B9.jp2">>), Some("MD5"), None) }

\* The documents Manifest::parse is called on.
ParseDocs ==
    { ManifestDoc(FALSE, FALSE, <<>>), ManifestDoc(TRUE, FALSE, <<>>) }
    \cup { ManifestDoc(TRUE, TRUE, children) : children \in SeqsUpTo(ParseNodes, MaxChildren) }

\* A call of manifest.parse().
ParseManifest ==
    /\ mparsed.kind = "none"
    /\ mparsed' = [kind |-> "returned", result |-> Parse(mdoc)]
    /\ UNCHANGED <<xvars, bvars, url, parsed, svars, mdoc, tvars>>

InitParse ==
    /\ SelectionIdle
    /\ ExecutorIdle
    /\ BuilderIdle
    /\ ParserIdle
    /\ StoreIdle
    /\ mdoc \in ParseDocs
    /\ mparsed = [kind |-> "none"]

NextParse == ParseManifest

SpecParse == InitParse /\ [][NextParse]_vars

\* ===================================================================== claims
ExistedAt(fs, path) == fs.names[path] # NoFile

\* The positions in netlog of the storage calls executor e made for task i.
CallsFor(e, i) == { n \in 1..Len(netlog) : netlog[n].e = e /\ netlog[n].task = i }

InTryDownload(e) ==
    pc[e] \in {"exists", "mkdir", "open", "head", "range", "stream", "rename", "failed"}

\* The task the last finished or the running try_download of e is about
\* (0 when there is none).
LastTask(e) ==
    IF InTryDownload(e) THEN idx[e]
    ELSE IF pc[e] \in {"execute", "done"} /\ idx[e] > 1 THEN idx[e] - 1
    ELSE 0

\* The try_download of e on task t has returned Ok(()).
ReturnedOk(e, t) == pc[e] \in {"execute", "done"} /\ t > 0 /\ idx[e] - 1 = t

BytesAt(fs, path) == IF fs.names[path] = NoFile THEN <<>> ELSE fs.data[fs.names[path]]

RangeCalls(e, t) == { n \in CallsFor(e, t) : netlog[n].req.op = "get_object_range" }

HeadCalls(e, t) == { n \in CallsFor(e, t) : netlog[n].req.op = "head_object" }

\* C1: a try_download invoked on a destination that already exists returns
\* success having made no storage call for that task and with the filesystem
\* as it was when it was invoked (no .partial file created, no file or
\* directory touched); and an execute on a plan whose every destination
\* exists makes no storage call at all, never fails, and leaves the
\* filesystem as it found it.
C1_SkipExisting ==
    \A e \in Executors :
        /\ (LastTask(e) > 0 /\ ExistedAt(fsT[e], plan[LastTask(e)].output))
              => /\ pc[e] \in {"exists", "execute", "done"}
                 /\ FileSystem = fsT[e]
                 /\ CallsFor(e, LastTask(e)) = {}
        /\ (pc[e] # "idle" /\ \A i \in DOMAIN plan : ExistedAt(fs0[e], plan[i].output))
              => /\ pc[e] # "failed"
                 /\ FileSystem = fs0[e]
                 /\ netlog = <<>>
                 /\ pc[e] = "done" => result[e] = "Ok"

\* C1 witness: an execute over two different tasks whose destinations both
\* existed has returned, with .partial files lying around.
C1_Witness ==
    /\ pc[1] = "done"
    /\ Len(plan) = 2 /\ plan[1] # plan[2]
    /\ \A i \in DOMAIN plan : ExistedAt(fs0[1], plan[i].output)
    /\ \E i \in DOMAIN plan : ExistedAt(fs0[1], PartialPath(plan[i].output))

\* The case of C2 for the last or running try_download of e: the destination
\* was absent and the .partial file held `have` < total bytes, a true prefix
\* of the remote object.
ResumeCase(e) ==
    /\ LastTask(e) > 0
    /\ LET task == plan[LastTask(e)]
           before == BytesAt(fsT[e], PartialPath(task.output))
       IN  /\ ~ExistedAt(fsT[e], task.output)
           /\ ExistedAt(fsT[e], PartialPath(task.output))
           /\ Len(before) < Len(remote[task.key])
           /\ IsPrefix(before, remote[task.key])

\* C2: resume correctness. In the resume case the only ranged fetch of the
\* invocation asks for the task's bucket and key with the range
\* [have, total-1]; past the fetch there is exactly one such call; while the
\* requested bytes stream in, the .partial file followed by the bytes still
\* to come is the remote object; and once try_download has returned Ok on a
\* response that carried the requested bytes, the destination holds exactly
\* the remote object (total bytes).
C2_Resume ==
    \A e \in Executors :
        ResumeCase(e) =>
            LET t == LastTask(e)
                task == plan[t]
                have == Len(BytesAt(fsT[e], PartialPath(task.output)))
                total == Len(remote[task.key])
                exact == \A n \in RangeCalls(e, t) : netlog[n].answer = "exact"
            IN  /\ \A n \in RangeCalls(e, t) :
                      netlog[n].req = [op |-> "get_object_range", bucket |-> task.bucket,
                                       key |-> task.key, range |-> <<have, total - 1>>]
                /\ Cardinality(RangeCalls(e, t)) <= 1
                /\ (pc[e] \in {"stream", "rename"} \/ ReturnedOk(e, t))
                      => Cardinality(RangeCalls(e, t)) = 1
                /\ (pc[e] = "stream" /\ exact)
                      => data[partial_file[e]] \o body[e] = remote[task.key]
                /\ (ReturnedOk(e, t) /\ exact)
                      => /\ Exists(task.output)
                         /\ Content(task.output) = remote[task.key]
                         /\ Len(Content(task.output)) = total

\* C2 witness: a resumed download (one byte on disk, MaxSize to have) has
\* returned Ok on a faithful response.
C2_Witness ==
    /\ ResumeCase(1)
    /\ ReturnedOk(1, LastTask(1))
    /\ Len(BytesAt(fsT[1], PartialPath(plan[LastTask(1)].output))) = 1
    /\ Len(remote[plan[LastTask(1)].key]) = MaxSize
    /\ \E n \in RangeCalls(1, LastTask(1)) : netlog[n].answer = "exact"

\* The case of C3: the destination was absent and the .partial file was
\* exactly as long as the remote object.
CompleteCase(e) ==
    /\ LastTask(e) > 0
    /\ LET task == plan[LastTask(e)]
       IN  /\ ~ExistedAt(fsT[e], task.output)
           /\ ExistedAt(fsT[e], PartialPath(task.output))
           /\ Len(BytesAt(fsT[e], PartialPath(task.output))) = Len(remote[task.key])

\* C3: when the .partial file is already as long as the reported total,
\* try_download issues no ranged fetch (it is never at the fetch or in the
\* chunk loop), makes the one metadata request, and on Ok the destination is
\* the file that was the .partial file, unchanged, and the .partial path is
\* gone.
C3_CompletePartial ==
    \A e \in Executors :
        CompleteCase(e) =>
            LET t == LastTask(e)
                task == plan[t]
                partial == PartialPath(task.output)
            IN  /\ RangeCalls(e, t) = {}
                /\ pc[e] \notin {"range", "stream"}
                /\ Cardinality(HeadCalls(e, t)) <= 1
                /\ (pc[e] = "rename" \/ ReturnedOk(e, t))
                      => \E n \in HeadCalls(e, t) : netlog[n].answer = "length"
                /\ ReturnedOk(e, t)
                      => /\ names[task.output] = fsT[e].names[partial]
                         /\ Content(task.output) = BytesAt(fsT[e], partial)
                         /\ ~Exists(partial)

\* C3 witness: a non-empty, complete .partial file has been renamed.
C3_Witness ==
    /\ CompleteCase(1)
    /\ ReturnedOk(1, LastTask(1))
    /\ Len(remote[plan[LastTask(1)].key]) = MaxSize

Errors == {"Io", "Net", "SizeUnknown"}

\* The positions of try_download after the existence check, up to the rename.
AfterCheck == {"mkdir", "open", "head", "range", "stream", "rename"}

NextFileSystem == [names |-> names', data |-> data', dirs |-> dirs']

C4_Step ==
    \A e \in Executors :
        LET dst == plan[idx[e]].output
            partial == PartialPath(dst)
        IN  \* a step in which try_download fails
            /\ (pc[e] # "failed" /\ pc'[e] = "failed")
                  => /\ pc[e] \in AfterCheck
                     /\ result'[e] \in Errors
                     /\ idx'[e] = idx[e]
                     /\ names'[dst] = NoFile
                     /\ names[partial] # NoFile => names'[partial] = names[partial]
                     /\ pc[e] \in {"head", "range", "stream", "rename"}
                           => names'[partial] # NoFile
                     /\ IsPrefix(BytesAt(fsT[e], partial), BytesAt(NextFileSystem, partial))
                     /\ Len(netlog') <= Len(netlog) + 1
            \* bytes once written to a file stay, in every step
            /\ \A i \in DOMAIN data : i \in DOMAIN data' /\ IsPrefix(data[i], data'[i])
            \* a storage call that was answered with an error, or without a
            \* length, is the last call, and try_download has failed
            /\ \A n \in 1..Len(netlog') :
                  (netlog'[n].e = e /\ netlog'[n].answer \in {"error", "no_length"})
                      => n = Len(netlog') /\ pc'[e] = "failed"
            \* after the failure the executor does nothing until it is
            \* invoked again
            /\ pc[e] = "failed"
                  => \/ UNCHANGED <<fsvars, netlog, pc>>
                     \/ pc'[e] = "execute" /\ runs' = runs + 1 /\ UNCHANGED fsvars

\* C4: a failure of try_download after the existence check (directory
\* creation, open, metadata, HEAD, ranged fetch, chunk read, chunk write, or
\* the rename itself) returns an error to the caller of execute, leaves the
\* destination absent and the .partial file in place with what it held at
\* the invocation followed by every byte written since (no file ever loses
\* a byte), and is followed by no further storage call: an error answer is
\* the last call of the invocation.
C4_ErrorsPreserve == [][C4_Step]_vars

\* C4 witness: the chunk loop failed after a byte of this invocation was
\* written behind a byte of an earlier one; both are in the .partial file.
C4_Witness ==
    /\ pc[1] = "failed"
    /\ Len(netlog) = 2 /\ netlog[2].answer = "exact"
    /\ LET partial == PartialPath(plan[idx[1]].output)
       IN  /\ Len(BytesAt(fsT[1], partial)) = 1
           /\ Exists(partial)
           /\ Len(Content(partial)) = 2

\* The positions of a running try_download.
Running == {"exists"} \cup AfterCheck

C5_Step ==
    \A o \in Outputs :
        \* the destination comes to exist only by the rename of its .partial
        \* file, after which try_download returns at once
        /\ (names[o] = NoFile /\ names'[o] # NoFile)
              => \E e \in Executors :
                    /\ pc[e] = "rename" /\ plan[idx[e]].output = o
                    /\ names[PartialPath(o)] # NoFile
                    /\ names'[o] = names[PartialPath(o)]
                    /\ names'[PartialPath(o)] = NoFile
                    /\ UNCHANGED <<data, dirs>>
                    /\ pc'[e] = "execute" /\ idx'[e] = idx[e] + 1
        \* an existing destination is never replaced or written
        /\ names[o] # NoFile
              => names'[o] = names[o] /\ data'[names[o]] = data[names[o]]
        \* try_download returns Ok either from the existence check or from
        \* the rename, which leaves the destination and no .partial file
        /\ \A e \in Executors :
              (pc[e] \in Running /\ pc'[e] = "execute" /\ plan[idx[e]].output = o)
                  => \/ pc[e] = "exists" /\ UNCHANGED fsvars
                     \/ /\ pc[e] = "rename"
                        /\ names[o] = NoFile
                        /\ names'[o] # NoFile
                        /\ names'[PartialPath(o)] = NoFile

\* C5: the destination is never written directly. A destination that does
\* not exist comes to exist only in the rename step, as the file that was
\* the .partial file; that step changes nothing else, is the last step of
\* the invocation, and leaves no .partial path; a destination that exists
\* is never replaced nor its content changed.
C5_RenameOnly == [][C5_Step]_vars

\* C5 witness: a destination made by the rename of a downloaded .partial file.
C5_Witness ==
    /\ ReturnedOk(1, LastTask(1))
    /\ LET task == plan[LastTask(1)]
       IN  /\ ~ExistedAt(fsT[1], task.output)
           /\ RangeCalls(1, LastTask(1)) # {}
           /\ Exists(task.output)
           /\ ~Exists(PartialPath(task.output))
           /\ Content(task.output) = remote[task.key]
           /\ Len(remote[task.key]) = MaxSize

FileAt(fs, path) == [exists |-> fs.names[path] # NoFile, bytes |-> BytesAt(fs, path)]

\* Task j of the plan is untouched since the execute of e began: its
\* destination, .partial file and parent directory are as they were.
Untouched(e, j) ==
    LET o == plan[j].output
    IN  /\ FileAt(FileSystem, o) = FileAt(fs0[e], o)
        /\ FileAt(FileSystem, PartialPath(o)) = FileAt(fs0[e], PartialPath(o))
        /\ (ParentDir(o) \in dirs) = (ParentDir(o) \in fs0[e].dirs)

\* C6: execute runs the tasks in plan order, one at a time. While e runs
\* (or has returned), every task before the current one has returned
\* success (its destination exists); the storage calls are in task order,
\* each for its task's bucket and key, none for a task after the current
\* one; the tasks after the current one are untouched on disk; a failed
\* execute returned the error of the task it stopped at, and an execute
\* that returned Ok has gone through the whole plan.
C6_InOrder ==
    \A e \in Executors :
        pc[e] # "idle" =>
            /\ idx[e] \in 1..(Len(plan) + 1)
            /\ \A j \in 1..(idx[e] - 1) : Exists(plan[j].output)
            /\ \A n \in 1..Len(netlog) :
                  /\ netlog[n].task \in 1..Min(idx[e], Len(plan))
                  /\ n > 1 => netlog[n - 1].task <= netlog[n].task
                  /\ netlog[n].req.bucket = plan[netlog[n].task].bucket
                  /\ netlog[n].req.key = plan[netlog[n].task].key
            /\ \A j \in (idx[e] + 1)..Len(plan) :
                  (\A k \in 1..idx[e] : plan[k].output # plan[j].output) => Untouched(e, j)
            /\ pc[e] = "failed" => result[e] \in Errors /\ idx[e] <= Len(plan)
            /\ pc[e] = "done" => result[e] = "Ok" /\ idx[e] = Len(plan) + 1
            /\ pc[e] \in Running => idx[e] <= Len(plan)

\* C6 witness: the second of two tasks failed in its fetch after the first
\* was downloaded.
C6_Witness ==
    /\ pc[1] = "failed"
    /\ idx[1] = 2
    /\ plan[1] # plan[2]
    /\ RangeCalls(1, 1) # {}
    /\ RangeCalls(1, 2) # {}

\* C7: a HEAD response without a content length is the last storage call of
\* the invocation: try_download has failed with the size-unknown error, no
\* ranged fetch was issued for the task, the destination does not exist and
\* the .partial file is where and what it was.
C7_SizeUnknown ==
    \A n \in 1..Len(netlog) :
        netlog[n].answer = "no_length" =>
            LET e == netlog[n].e
                t == netlog[n].task
                partial == PartialPath(plan[t].output)
            IN  /\ n = Len(netlog)
                /\ netlog[n].req.op = "head_object"
                /\ pc[e] = "failed" /\ result[e] = "SizeUnknown" /\ idx[e] = t
                /\ RangeCalls(e, t) = {}
                /\ ~Exists(plan[t].output)
                /\ Exists(partial)
                /\ Content(partial) = BytesAt(fsT[e], partial)

\* C7 witness: the HEAD for a task with a non-empty .partial file came back
\* without a length.
C7_Witness ==
    /\ pc[1] = "failed" /\ result[1] = "SizeUnknown"
    /\ netlog # <<>> /\ netlog[Len(netlog)].answer = "no_length"
    /\ Len(BytesAt(FileSystem, PartialPath(plan[idx[1]].output))) > 0

\* ------------------------------------------------ generate_download_plan
ReturnedPlan == gpc = "returned" /\ outcome.kind = "Ok"

ReturnedError == gpc = "returned" /\ outcome.kind = "Err"

\* The products of a selection that are flagged for download, in order.
FlaggedOf(sel) == SelectSeq(sel.products, LAMBDA p : p.download)

\* The distinct scene identifiers of a selection.
DistinctIds(sel) == { sel.ids_to_download[i] : i \in DOMAIN sel.ids_to_download }

\* C8: on a selection with no identifier, no product or no product flagged
\* for download, generate_download_plan issues no request at all and its
\* first step returns an error; and whatever the selection, a plan that is
\* returned is not empty.
C8_InvalidSelection ==
    /\ (selection.ids_to_download = <<>> \/ FlaggedOf(selection) = <<>>)
          => /\ fetches = <<>>
             /\ tasks = <<>>
             /\ gpc \in {"off", "start", "returned"}
             /\ gpc = "returned" => outcome.kind = "Err"
    /\ ReturnedPlan => outcome.tasks # <<>>

\* C8 witness: a selection with identifiers and products, none flagged, was
\* refused.
C8_Witness ==
    /\ ReturnedError
    /\ Len(selection.ids_to_download) = 2
    /\ Len(selection.products) = 2
    /\ FlaggedOf(selection) = <<>>

\* The product a remote file of the catalogs above is an image of.
ProductOfFile(file) ==
    IF file \in {"B2.jp2", "B2.tif"} THEN <<"B", "2">>
    ELSE IF file \in {"TC1.jp2", "TC2.jp2", "TC.tif"} THEN <<"T", "C">>
    ELSE <<>>

\* The task built for the k-th flagged product of the i-th identifier,
\* when each identifier yields m tasks.
TaskAt(ts, i, k, m) == ts[(i - 1) * m + k]

\* C9: a returned plan holds |distinct identifiers| x |flagged products|
\* tasks: for each distinct identifier (each resolved once) and each
\* product entry flagged for download exactly one task, under that
\* identifier's directory and for a file of that product; so no task
\* belongs to a product that is not flagged.
C9_OneTaskPerPair ==
    ReturnedPlan =>
        LET flagged == FlaggedOf(selection)
            m == Len(flagged)
            distinct == DistinctIds(selection)
        IN  /\ Len(outcome.tasks) = Cardinality(distinct) * m
            /\ Len(ids) = Cardinality(distinct)
            /\ { ids[i] : i \in DOMAIN ids } = distinct
            /\ \A i \in DOMAIN ids : \A k \in 1..m :
                  /\ TaskAt(outcome.tasks, i, k, m).output.dir = Append(OutputDir, ids[i])
                  /\ ProductOfFile(TaskAt(outcome.tasks, i, k, m).output.file) = flagged[k].id

\* C9 witness: a plan for two scenes, of two products one flagged, with one
\* identifier given twice.
C9_Witness ==
    /\ ReturnedPlan
    /\ Len(selection.ids_to_download) = MaxIds
    /\ Len(selection.products) = 2
    /\ Len(FlaggedOf(selection)) = 1
    /\ Len(outcome.tasks) = Cardinality(DistinctIds(selection))

\* The last component of a key (empty and "." segments are no components).
Basename(key) == Last(SelectSeq(key, LAMBDA x : x \notin {"", "."}))

\* The key of the manifest request without its last segment: manifest.prefix.
PrefixOf(manifestKey) == SubSeq(manifestKey, 1, Len(manifestKey) - 1)

\* C10: every task built has output = output_dir / scene identifier /
\* basename(its key), the identifier being the one whose resolution built
\* it. For the manifest resolver the task's bucket is the manifest's and its
\* key is the manifest prefix, "/", and the relative href (the href without
\* its leading "./") of an entry of that scene's manifest; for the direct
\* resolver bucket and key are those of the URL of an asset of that scene's
\* record.
C10_OutputPath ==
    /\ ReturnedPlan => outcome.tasks = tasks
    /\ \A n \in DOMAIN tasks :
          LET m == Len(products)
              i == ((n - 1) \div m) + 1
              t == tasks[n]
          IN  /\ i \in DOMAIN ids
              /\ t.output = [dir |-> OutputDir \o <<ids[i]>>, file |-> Basename(t.key)]
              /\ selection.id = CopernicusId
                    => LET f == fetches[2 * i]
                       IN  /\ f.req.kind = "get_object"
                           /\ f.kind = "manifest"
                           /\ fetches[2 * i - 1].req.id = ids[i]
                           /\ t.bucket = f.req.bucket
                           /\ \E c \in DOMAIN f.reply.children :
                                 /\ f.reply.children[c].href.some
                                 /\ t.key = PrefixOf(f.req.key)
                                             \o Tail(f.reply.children[c].href.v)
              /\ selection.id = Element84Id
                    => LET f == fetches[i]
                       IN  /\ f.req.id = ids[i]
                           /\ \E a \in DOMAIN f.reply :
                                 /\ GetS3UrlParts(f.reply[a].href).ok
                                 /\ t.key = SplitSlash(GetS3UrlParts(f.reply[a].href).v.key)
                                 /\ t.bucket = Text(GetS3UrlParts(f.reply[a].href).v.bucket)

\* C10 witness: a manifest-resolver plan of four tasks, two scenes by two
\* products.
C10_Witness ==
    /\ ReturnedPlan
    /\ selection.id = CopernicusId
    /\ Len(outcome.tasks) = 4
    /\ outcome.tasks[1].output.dir # outcome.tasks[4].output.dir
    /\ Len(outcome.tasks[1].key) = 4

\* The scene (position in ids) the n-th logged request belongs to: the
\* manifest resolver makes two requests per scene, the direct one a single one.
SceneOfFetch(n) == IF selection.id = CopernicusId THEN (n + 1) \div 2 ELSE n

\* C11: a call that fails while resolving an identifier returns an error
\* and no plan (the tasks of the identifiers resolved before are not
\* returned); every identifier before the failing one was resolved in full,
\* every request made is for an identifier up to the failing one, so no
\* identifier after it is fetched; and a plan that is returned covers every
\* identifier.
C11_NoPartialPlan ==
    /\ ReturnedError => DOMAIN outcome = {"kind", "message"}
    /\ ReturnedPlan
          => /\ cursor = Len(ids) + 1
             /\ Len(outcome.tasks) = Len(ids) * Len(products)
    /\ (ReturnedError /\ fetches # <<>>)
          => /\ cursor \in DOMAIN ids
             /\ Len(tasks) = (cursor - 1) * Len(products)
             /\ SceneOfFetch(Len(fetches)) = cursor
             /\ \A n \in DOMAIN fetches :
                  /\ SceneOfFetch(n) < cursor => fetches[n].kind \in {"item", "manifest"}
                  /\ fetches[n].req.kind = "catalog"
                        => /\ fetches[n].req.id = ids[SceneOfFetch(n)]
                           /\ \A j \in DOMAIN ids : j > cursor => fetches[n].req.id # ids[j]
             /\ fetches[Len(fetches)].kind = "error"
                  => outcome.message \in {<<"catalog fetch">>, <<"get_object">>}

\* C11 witness: the second of two identifiers failed after the first one
\* had its tasks built.
C11_Witness ==
    /\ ReturnedError
    /\ Len(ids) = 2
    /\ cursor = 2
    /\ tasks # <<>>

\* needle occurs in hay: some stretch of hay equals needle.
IsSubstring(needle, hay) ==
    \E i \in 1..(Len(hay) + 1) : \E j \in 0..Len(hay) : SubSeq(hay, i, j) = needle

\* The manifest reply logged for the i-th scene, and its parsed entries.
ManifestFetchOf(i) == fetches[2 * i]

EntriesOf(i) == Parse(ManifestFetchOf(i).reply).v

ParsedManifest(i) ==
    /\ 2 * i \in DOMAIN fetches
    /\ ManifestFetchOf(i).kind = "manifest"
    /\ Parse(ManifestFetchOf(i).reply).ok

UnmatchedMessage == "No corresponding DataObject found in Manifest for Product with id: "

\* C12: in the manifest resolver the entry taken for a requested product
\* has an id that contains the product id, and no entry whose id does not
\* contain it is taken; when some requested product id is contained in no
\* entry id, the call fails with the message that names such a product id
\* and no task is built for the scene, and that message is given only then.
C12_SubstringMatch ==
    selection.id = CopernicusId =>
        \A i \in DOMAIN ids :
            ParsedManifest(i) =>
                LET m == Len(products)
                    prefix == PrefixOf(ManifestFetchOf(i).req.key)
                    entries == EntriesOf(i)
                    unmatched == { k \in 1..m :
                        \A n \in DOMAIN entries : ~IsSubstring(products[k].id, entries[n].id) }
                IN  /\ i < cursor =>
                        /\ unmatched = {}
                        /\ \A k \in 1..m : \E n \in DOMAIN entries :
                              TaskAt(tasks, i, k, m).key = prefix \o entries[n].relative_href
                        /\ \A k \in 1..m : \A n \in DOMAIN entries :
                              TaskAt(tasks, i, k, m).key = prefix \o entries[n].relative_href
                                  => IsSubstring(products[k].id, entries[n].id)
                    /\ (i = cursor /\ gpc = "returned") =>
                        /\ unmatched # {}
                        /\ \E k \in unmatched :
                               outcome = [kind |-> "Err",
                                          message |-> <<UnmatchedMessage, products[k].id>>]
                        /\ Len(tasks) = (i - 1) * m

\* C12 witness: of two requested products the first has a matching entry,
\* the second has none, and the call failed naming the second.
C12_Witness ==
    /\ ReturnedError
    /\ selection.id = CopernicusId
    /\ Len(products) = 2
    /\ ParsedManifest(cursor)
    /\ \E n \in DOMAIN EntriesOf(cursor) : IsSubstring(products[1].id, EntriesOf(cursor)[n].id)
    /\ outcome.message = <<UnmatchedMessage, products[2].id>>

\* The first entry, in document order, whose id contains the product id.
FirstMatch(entries, productId) ==
    LET matching == { n \in DOMAIN entries : IsSubstring(productId, entries[n].id) }
    IN  entries[CHOOSE n \in matching : \A o \in matching : n <= o]

\* C13: the entry taken for a requested product is the first entry of the
\* manifest, in document order, whose id contains the product id (so the
\* entry taken is a function of the product list and the manifest entries).
C13_FirstInDocumentOrder ==
    selection.id = CopernicusId =>
        \A i \in DOMAIN ids :
            (ParsedManifest(i) /\ i < cursor) =>
                \A k \in 1..Len(products) :
                    TaskAt(tasks, i, k, Len(products)).key =
                        PrefixOf(ManifestFetchOf(i).req.key)
                            \o FirstMatch(EntriesOf(i), products[k].id).relative_href

\* The positions of the logged requests of one kind.
FetchesOfKind(kind) == { n \in DOMAIN fetches : fetches[n].req.kind = kind }

\* C14: a manifest-resolver call that returned a plan made, for each
\* distinct identifier of the selection, exactly one catalog request and,
\* right after it, exactly one manifest get_object, and no other request,
\* however often the identifier is listed and however many products are
\* flagged; and the identifiers iterated hold each distinct identifier
\* exactly once.
C14_OneFetchPerScene ==
    /\ cursor > 0 =>
          /\ \A i, j \in DOMAIN ids : ids[i] = ids[j] => i = j
          /\ { ids[i] : i \in DOMAIN ids } = DistinctIds(selection)
    /\ (ReturnedPlan /\ selection.id = CopernicusId) =>
          /\ Len(fetches) = 2 * Cardinality(DistinctIds(selection))
          /\ \A d \in DistinctIds(selection) :
                /\ Cardinality({ n \in FetchesOfKind("catalog") : fetches[n].req.id = d }) = 1
                /\ Cardinality({ n \in FetchesOfKind("get_object") :
                                    n > 1 /\ fetches[n - 1].req = CatalogGet("SENTINEL-2", d) }) = 1
          /\ Cardinality(FetchesOfKind("get_object")) = Cardinality(DistinctIds(selection))

\* C14 witness: a plan for a selection that lists the same identifier twice
\* and flags two products.
C14_Witness ==
    /\ ReturnedPlan
    /\ selection.id = CopernicusId
    /\ Len(selection.ids_to_download) = 2
    /\ Cardinality(DistinctIds(selection)) = 1
    /\ Len(FlaggedOf(selection)) = 2
    /\ Len(fetches) = 2

MissingAssetsMessage == <<"Did not find matching assets for specified products">>

\* C15: in the direct resolver a scene's tasks are built only when every
\* requested product id is, verbatim, a key of the record's asset map, each
\* task from the asset under exactly that key; when some requested product
\* id is no key of the map (a key that only contains it does not count) the
\* call fails with the missing-assets error and no task of that scene is
\* built, not even for the products that have an asset.
C15_ExactAssetKey ==
    selection.id = Element84Id =>
        \A i \in DOMAIN ids :
            (i \in DOMAIN fetches /\ fetches[i].kind = "item") =>
                LET m == Len(products)
                    assets == fetches[i].reply
                    missing == { k \in 1..m : products[k].id \notin DOMAIN assets }
                IN  /\ i < cursor =>
                        /\ missing = {}
                        /\ \A k \in 1..m :
                              /\ TaskAt(tasks, i, k, m).key =
                                    SplitSlash(GetS3UrlParts(assets[products[k].id].href).v.key)
                              /\ TaskAt(tasks, i, k, m).bucket =
                                    Text(GetS3UrlParts(assets[products[k].id].href).v.bucket)
                    /\ missing # {} =>
                        /\ i = cursor
                        /\ outcome = [kind |-> "Err", message |-> MissingAssetsMessage]
                        /\ Len(tasks) = (i - 1) * m

\* C15 witness: of two requested products the first is an asset key, the
\* second is only contained in one, and the call failed with no task built.
C15_Witness ==
    /\ ReturnedError
    /\ selection.id = Element84Id
    /\ Len(products) = 2
    /\ fetches[cursor].kind = "item"
    /\ products[1].id \in DOMAIN fetches[cursor].reply
    /\ products[2].id \notin DOMAIN fetches[cursor].reply
    /\ \E key \in DOMAIN fetches[cursor].reply : IsSubstring(products[2].id, key)
    /\ outcome.message = MissingAssetsMessage
    /\ tasks = <<>>

\* The ways to read s as https://<bucket>.s3.<region>.amazonaws.com/<key>,
\* from its first to its last character, with a non-empty bucket and region
\* that hold no '.', and a non-empty key.
ShapesOf(s) ==
    { [bucket |-> SubSeq(s, 2, c[1]),
       region |-> SubSeq(s, c[1] + 4, c[2]),
       key |-> SubSeq(s, c[2] + 6, Len(s))] :
          c \in { d \in (2..Len(s)) \X (2..Len(s)) :
                    /\ d[2] >= d[1] + 4
                    /\ Len(s) >= d[2] + 6
                    /\ s = <<Https>> \o SubSeq(s, 2, d[1]) \o <<".", "s3", ".">>
                             \o SubSeq(s, d[1] + 4, d[2])
                             \o <<".", "amazonaws", ".", "com", "/">>
                             \o SubSeq(s, d[2] + 6, Len(s))
                    /\ \A n \in (2..d[1]) \cup ((d[1] + 4)..d[2]) : s[n] # "." } }

\* C16: get_s3_url_parts returns, for a URL of the shape
\* https://<bucket>.s3.<region>.amazonaws.com/<key>, exactly that bucket,
\* region and key, and for any other URL the error that names the URL.
C16_UrlParsing ==
    parsed.kind = "returned" =>
        /\ \A shape \in ShapesOf(url) : parsed.result = [ok |-> TRUE, v |-> shape]
        /\ ShapesOf(url) = {} =>
              parsed.result = [ok |-> FALSE,
                               message |-> <<"No regex matches found for: ", url>>]

OnlyPlanCalls ==
    /\ fetches = <<>>
    /\ \A n \in DOMAIN netlog :
          /\ netlog[n].req.op \in {"head_object", "get_object_range"}
          /\ netlog[n].task \in DOMAIN plan
          /\ netlog[n].req.bucket = plan[netlog[n].task].bucket
          /\ netlog[n].req.key = plan[netlog[n].task].key

\* The request executor e makes next, as the plan, the filesystem and the
\* storage determine it: at the head step the head_object of the task, at
\* the range step the range from the .partial file's length to the object's
\* last byte.
RequestDue(e) ==
    IF pc[e] = "head"
    THEN [op |-> "head_object", bucket |-> plan[idx[e]].bucket, key |-> plan[idx[e]].key]
    ELSE [op |-> "get_object_range", bucket |-> plan[idx[e]].bucket,
          key |-> plan[idx[e]].key,
          range |-> <<Len(BytesAt(FileSystem, PartialPath(plan[idx[e]].output))),
                      Len(remote[plan[idx[e]].key]) - 1>>]

C18_Step ==
    /\ plan' = plan
    /\ OnlyPlanCalls'
    /\ (netlog' # netlog /\ netlog' # <<>>) =>
          \E e \in Executors :
              /\ pc[e] \in {"head", "range"}
              /\ Len(netlog') = Len(netlog) + 1
              /\ SubSeq(netlog', 1, Len(netlog)) = netlog
              /\ netlog'[Len(netlog')].req = RequestDue(e)

\* C18: execute never changes the plan's tasks, makes no catalog or
\* manifest request, and every call it makes is the head_object or the
\* get_object_range of the task at hand, its arguments fixed by the plan,
\* the filesystem and the storage: replays from the same state given the
\* same answers make the same calls.
C18_ReplayOnly == [][C18_Step]_vars

\* C18 witness: a second execute of the plan that has made a head_object
\* and a get_object_range call.
C18_Witness ==
    /\ runs = 2
    /\ \E n, o \in DOMAIN netlog :
          /\ netlog[n].req.op = "head_object"
          /\ netlog[o].req.op = "get_object_range"
          /\ netlog[o].req.range[1] > 0

\* A child that has every required part: the ID attribute, a byteStream
\* size that is a number, a fileLocation href, a checksumName and the
\* checksum's text.
HasRequiredParts(node) ==
    /\ node.ID.some
    /\ node.size.some /\ node.size.v.numeric
    /\ node.href.some
    /\ node.checksumName.some
    /\ node.checksum.some

\* The entry that carries the parts of a child (the href without a leading
\* "./").
EntryOf(node) ==
    [id |-> node.ID.v, filesize |-> node.size.v.n,
     relative_href |-> IF node.href.v[1] = "." THEN Tail(node.href.v) ELSE node.href.v,
     checksum_algorithm |-> node.checksumName.v,
     checksum |-> node.checksum.v]

\* C19: Manifest::parse returns an error exactly when the document is no
\* XML or holds no dataObjectSection; otherwise it returns, in document
\* order, one entry for each child that has every required part, carrying
\* those parts, and nothing for the other children.
C19_ParseSkips ==
    mparsed.kind = "returned" =>
        /\ ~mparsed.result.ok <=> (~mdoc.xml \/ ~mdoc.section)
        /\ mparsed.result.ok =>
              LET whole == SelectSeq(mdoc.children, HasRequiredParts)
              IN  /\ Len(mparsed.result.v) = Len(whole)
                  /\ \A n \in DOMAIN whole : mparsed.result.v[n] = EntryOf(whole[n])

\* The value under key of a JSON object; a value of its own kind when v is
\* no object or has no such field.
FieldOf(v, key) == IF v.t = "obj" /\ key \in DOMAIN v.f THEN v.f[key] ELSE [t |-> "missing"]

\* The catalog record has a PRODUCT asset with alternate, s3 and href
\* fields, href being a string.
HasStorageLocation(item) ==
    FieldOf(FieldOf(FieldOf(FieldOf(item, "PRODUCT"), "alternate"), "s3"), "href").t = "str"

ExtractionMessage == <<"Error extracting bucket and directory key">>

\* C20: when the catalog record received for a scene lacks the PRODUCT
\* asset, its alternate, s3 or href field, or a string under href, the call
\* returns the structural-extraction error and the catalog request stays
\* the last request made: no get_object follows it. The error is returned
\* in no other case.
C20_StructuralExtraction ==
    selection.id = CopernicusId =>
        /\ \A n \in DOMAIN fetches :
              (fetches[n].kind = "item" /\ ~HasStorageLocation(fetches[n].reply)) =>
                  /\ n = Len(fetches)
                  /\ gpc = "returned"
                  /\ outcome = [kind |-> "Err", message |-> ExtractionMessage]
        /\ (ReturnedError /\ outcome.message = ExtractionMessage) =>
              /\ fetches # <<>>
              /\ fetches[Len(fetches)].kind = "item"
              /\ ~HasStorageLocation(fetches[Len(fetches)].reply)

\* C20 witness: the record of the second scene has a PRODUCT asset with an
\* alternate field that holds no s3 field.
C20_Witness ==
    /\ ReturnedError
    /\ selection.id = CopernicusId
    /\ cursor = 2
    /\ Len(fetches) = 3
    /\ fetches[3].kind = "item"
    /\ FieldOf(FieldOf(fetches[3].reply, "PRODUCT"), "alternate").t = "obj"
    /\ FieldOf(FieldOf(FieldOf(fetches[3].reply, "PRODUCT"), "alternate"), "s3").t = "missing"

\* ------------------------------------------------------- the .partial file
\* The ranged fetch the step logs, if it logs one.
NewRangeCall ==
    Len(netlog') = Len(netlog) + 1 /\ netlog'[Len(netlog')].req.op = "get_object_range"

C24_Step ==
    /\ \A o \in Outputs :
          names[PartialPath(o)] # NoFile =>
              \* the file stays, with what it held and maybe more behind it
              \/ /\ names'[PartialPath(o)] = names[PartialPath(o)]
                 /\ IsPrefix(Content(PartialPath(o)), data'[names[PartialPath(o)]])
              \* or it is renamed to the destination, as it is
              \/ /\ names'[PartialPath(o)] = NoFile
                 /\ names'[o] = names[PartialPath(o)]
                 /\ data'[names[PartialPath(o)]] = Content(PartialPath(o))
                 /\ \E e \in Executors : pc[e] = "rename" /\ plan[idx[e]].output = o
    /\ NewRangeCall =>
          \E e \in Executors :
              LET call == netlog'[Len(netlog')]
                  partial == PartialPath(plan[idx[e]].output)
              IN  /\ call.e = e /\ call.task = idx[e]
                  /\ call.req.range[1] = Len(BytesAt(fsT[e], partial))
                  /\ call.req.range[1] = Len(BytesAt(FileSystem, partial))
                  /\ RangeCalls(e, idx[e]) = {}

\* C24: the .partial file is only ever appended to. In every step an
\* existing .partial file keeps its bytes (its length never decreases, it is
\* neither truncated nor deleted) or is renamed, unchanged, to its
\* destination by the rename step; and every ranged fetch starts at the
\* length the .partial file had when the try_download was invoked, which is
\* still its length at the fetch, and is the only ranged fetch of the
\* invocation, so no offset is fetched and written twice.
C24_AppendOnly == [][C24_Step]_vars

\* C24 witness: in a second execute, after the first left one byte in the
\* .partial file, the fetch started at offset 1 and its byte was appended.
C24_Witness ==
    /\ runs = 2
    /\ pc[1] = "stream"
    /\ Len(BytesAt(fsT[1], PartialPath(plan[idx[1]].output))) = 1
    /\ \E n \in RangeCalls(1, idx[1]) : netlog[n].req.range[1] = 1
    /\ Len(Content(PartialPath(plan[idx[1]].output))) = 2

\* ------------------------------------------------------- the order of steps
\* The positions try_download may go to from each position.
StepsAfter(p) ==
    CASE p = "exists" -> {"mkdir", "execute"}
      [] p = "mkdir"  -> {"open", "failed"}
      [] p = "open"   -> {"head", "failed"}
      [] p = "head"   -> {"range", "rename", "failed"}
      [] p = "range"  -> {"stream", "failed"}
      [] p = "stream" -> {"stream", "rename", "failed"}
      [] p = "rename" -> {"execute", "failed"}
      [] OTHER        -> {"execute", "exists", "done"}

\* What has happened when executor e is at its position in try_download.
DoneBefore(e) ==
    LET t == idx[e]
        dst == plan[t].output
        heads == HeadCalls(e, t)
        ranges == RangeCalls(e, t)
    IN  /\ pc[e] \in {"exists", "mkdir", "open", "head"} => CallsFor(e, t) = {}
        /\ pc[e] \in {"mkdir", "open", "head", "range", "stream", "rename"}
              => ~ExistedAt(fsT[e], dst) /\ ~Exists(dst)
        /\ pc[e] \in {"open", "head", "range", "stream", "rename"}
              => ParentDir(dst) \in dirs
        /\ pc[e] \in {"head", "range", "stream", "rename"}
              => Exists(PartialPath(dst)) /\ partial_file[e] = names[PartialPath(dst)]
        /\ pc[e] \in {"range", "stream", "rename"}
              => /\ Cardinality(heads) = 1
                 /\ \A n \in heads : netlog[n].answer = "length"
                 /\ \A n \in heads : \A o \in ranges : n < o
        /\ pc[e] = "range" => ranges = {}
        /\ pc[e] = "stream"
              => Cardinality(ranges) = 1 /\ \A n \in ranges : netlog[n].answer # "error"
        /\ pc[e] = "rename"
              => /\ Cardinality(ranges) <= 1
                 /\ \A n \in ranges : netlog[n].answer # "error"
                 /\ body[e] = <<>>

C25_Step ==
    \A e \in Executors :
        /\ pc'[e] # pc[e] => pc'[e] \in StepsAfter(pc[e])
        /\ pc'[e] \in Running => DoneBefore(e)'
        \* a directory is made only by the step after the existence check,
        \* and it is the missing parent
        /\ dirs' # dirs
              => /\ pc[e] = "mkdir" /\ pc'[e] = "open"
                 /\ ParentDir(plan[idx[e]].output) \notin dirs
                 /\ dirs' = dirs \cup { ParentDir(plan[idx[e]].output) }
        \* a .partial file is made only by the open
        /\ \A o \in Outputs :
              (names[PartialPath(o)] = NoFile /\ names'[PartialPath(o)] # NoFile)
                  => pc[e] = "open" /\ plan[idx[e]].output = o
        \* the calls are made at their steps
        /\ Len(netlog') > Len(netlog)
              => /\ Len(netlog') = Len(netlog) + 1
                 /\ pc[e] = (IF NewRangeCall THEN "range" ELSE "head")
        \* the rename is made at the rename step
        /\ \A o \in Outputs :
              (names[o] = NoFile /\ names'[o] # NoFile)
                  => pc[e] = "rename" /\ plan[idx[e]].output = o /\ DoneBefore(e)

\* C25: within one try_download the steps come in a fixed order: the
\* existence check, the creation of the missing parent directory, the open
\* (or creation) of the .partial file, exactly one HEAD request, at most one
\* ranged fetch, the rename. The ranged fetch comes after the HEAD was
\* answered with a size; the rename is made only after a HEAD answered with a
\* size and, if a fetch was made, after its stream ended without error.
C25_StepOrder == [][C25_Step]_vars

\* C25 witness: a try_download that made the parent directory and the
\* .partial file, one HEAD and one ranged fetch, and then renamed.
C25_Witness ==
    /\ ReturnedOk(1, LastTask(1))
    /\ LET t == LastTask(1)
       IN  /\ ParentDir(plan[t].output) \notin fsT[1].dirs
           /\ ~ExistedAt(fsT[1], PartialPath(plan[t].output))
           /\ Cardinality(HeadCalls(1, t)) = 1
           /\ Cardinality(RangeCalls(1, t)) = 1
           /\ Exists(plan[t].output)

\* ----------------------------------------------- sizes that do not match
\* The .partial file of the last or running try_download of e was longer
\* than the remote object when the try_download was invoked.
ShrunkenCase(e) ==
    /\ LastTask(e) > 0
    /\ ~ExistedAt(fsT[e], plan[LastTask(e)].output)
    /\ Len(BytesAt(fsT[e], PartialPath(plan[LastTask(e)].output)))
          > Len(remote[plan[LastTask(e)].key])

\* The ranged fetch of the last or running try_download of e was answered
\* with fewer bytes than asked for, the stream ending without error.
ShortCase(e) ==
    /\ LastTask(e) > 0
    /\ \E n \in RangeCalls(e, LastTask(e)) : netlog[n].answer = "short"

\* C26: a size that does not match is not detected. When the .partial file
\* is longer than the reported total, try_download makes no ranged fetch,
\* goes from the HEAD to the rename, fails with no error but an I/O or
\* network one, and on Ok the destination is the .partial file as it was,
\* longer than total. When the range response ends early without error,
\* try_download goes on to the rename just the same and on Ok the
\* destination is shorter than total.
C26_NotDetected ==
    \A e \in Executors :
        LET t == LastTask(e)
            task == plan[t]
            total == Len(remote[task.key])
        IN  /\ ShrunkenCase(e)
                  => /\ RangeCalls(e, t) = {}
                     /\ pc[e] \notin {"range", "stream"}
                     /\ pc[e] = "failed" => result[e] \in {"Io", "Net", "SizeUnknown"}
                     /\ (pc[e] = "failed" /\ \E n \in HeadCalls(e, t) : netlog[n].answer = "length")
                           => result[e] = "Io"
                     /\ ReturnedOk(e, t)
                           => /\ Exists(task.output)
                              /\ Content(task.output) = BytesAt(fsT[e], PartialPath(task.output))
                              /\ Len(Content(task.output)) > total
            /\ ShortCase(e)
                  => /\ pc[e] \in {"stream", "rename", "failed", "execute", "done"}
                     /\ pc[e] = "failed" => result[e] \in {"Io", "Net"}
                     /\ pc[e] = "rename" => Len(Content(PartialPath(task.output))) < total
                     /\ ReturnedOk(e, t)
                           => /\ Exists(task.output)
                              /\ Len(Content(task.output)) < total

\* C26 witness: a try_download has returned Ok with a destination longer
\* than the remote object, made of a .partial file of MaxSize bytes.
C26_Witness ==
    /\ ShrunkenCase(1)
    /\ ReturnedOk(1, LastTask(1))
    /\ Len(Content(plan[LastTask(1)].output)) = MaxSize

\* C26, second witness: a try_download has returned Ok on a range response
\* that ended one byte early.
C26_WitnessShort ==
    /\ ShortCase(1)
    /\ ReturnedOk(1, LastTask(1))
    /\ Len(Content(plan[LastTask(1)].output)) = Len(remote[plan[LastTask(1)].key]) - 1

\* --------------------------------------------------- the prefix invariant
\* The conditions of C28 on the execute of e: when it began, every .partial
\* file of the plan was absent or a prefix of its remote object, and every
\* range response so far carried the requested bytes and no others.
FaithfulRun(e) ==
    /\ pc[e] # "idle"
    /\ \A i \in DOMAIN plan :
          IsPrefix(BytesAt(fs0[e], PartialPath(plan[i].output)), remote[plan[i].key])
    /\ \A n \in DOMAIN netlog :
          netlog[n].req.op = "get_object_range" => netlog[n].answer \in {"exact", "error"}

\* C28: under those conditions every .partial file of the plan is a prefix
\* of its remote object, a failure in the middle of the stream included,
\* and a destination that the execute has made holds the whole remote
\* object.
C28_PrefixInvariant ==
    \A e \in Executors :
        FaithfulRun(e) =>
            \A i \in DOMAIN plan :
                LET dst == plan[i].output
                    object == remote[plan[i].key]
                IN  /\ IsPrefix(BytesAt(FileSystem, PartialPath(dst)), object)
                    /\ (~ExistedAt(fs0[e], dst) /\ Exists(dst)) => Content(dst) = object
                    /\ (pc[e] = "stream" /\ idx[e] = i)
                          => Content(PartialPath(dst)) \o body[e] = object

\* C28 witness: the stream failed after the first of MaxSize bytes was
\* written to a .partial file that did not exist before.
C28_Witness ==
    /\ FaithfulRun(1)
    /\ pc[1] = "failed" /\ result[1] = "Net"
    /\ ~ExistedAt(fs0[1], PartialPath(plan[idx[1]].output))
    /\ RangeCalls(1, idx[1]) # {}
    /\ Len(Content(PartialPath(plan[idx[1]].output))) = 1
    /\ Len(remote[plan[idx[1]].key]) = MaxSize

\* ------------------------------------------------------ the range's end
\* The case of C29 for the last or running try_download of e: the remote
\* object is empty, the destination was absent and the .partial file was
\* absent or empty.
EmptyObjectCase(e) ==
    /\ LastTask(e) > 0
    /\ Len(remote[plan[LastTask(e)].key]) = 0
    /\ ~ExistedAt(fsT[e], plan[LastTask(e)].output)
    /\ BytesAt(fsT[e], PartialPath(plan[LastTask(e)].output)) = <<>>

\* C29: `total_size - 1` never underflows. The executor is at the ranged
\* fetch only with byte_count < total_size, hence with total_size >= 1; it
\* never panics; every range it asks for ends at the object's last byte,
\* total - 1, at or after its start. For an empty remote object with an
\* empty or absent .partial file no ranged fetch is made, and on Ok the
\* destination is the empty .partial file, renamed.
C29_NoUnderflow ==
    /\ \A e \in Executors :
          /\ pc[e] # "panicked"
          /\ pc[e] = "range" => byte_count[e] < total_size[e] /\ total_size[e] >= 1
          /\ EmptyObjectCase(e)
                => LET dst == plan[LastTask(e)].output
                   IN  /\ RangeCalls(e, LastTask(e)) = {}
                       /\ pc[e] \notin {"range", "stream"}
                       /\ pc[e] = "rename" => Content(PartialPath(dst)) = <<>>
                       /\ ReturnedOk(e, LastTask(e))
                             => /\ Exists(dst) /\ Content(dst) = <<>>
                                /\ ~Exists(PartialPath(dst))
                                /\ Cardinality(HeadCalls(e, LastTask(e))) = 1
    /\ \A n \in DOMAIN netlog :
          netlog[n].req.op = "get_object_range"
              => /\ netlog[n].req.range[2] = Len(remote[netlog[n].req.key]) - 1
                 /\ 0 <= netlog[n].req.range[1]
                 /\ netlog[n].req.range[1] <= netlog[n].req.range[2]

\* C29 witness: an empty remote object with no .partial file has been
\* completed: the empty file made by the open is the destination.
C29_Witness ==
    /\ EmptyObjectCase(1)
    /\ ~ExistedAt(fsT[1], PartialPath(plan[LastTask(1)].output))
    /\ ReturnedOk(1, LastTask(1))
    /\ Exists(plan[LastTask(1)].output)

\* ------------------------------------------------------- the order of tasks
\* The scene identifier a task was built for: the directory of its output
\* under output_dir.
SceneOfTask(t) == Last(t.output.dir)

\* The position of the first x in the sequence s.
IndexIn(s, x) == CHOOSE i \in DOMAIN s : s[i] = x /\ \A j \in 1..(i - 1) : s[j] # x

\* C27: in a returned plan the tasks of one scene identifier are
\* contiguous; the blocks are in the order in which the deduplicated
\* identifier list (ids_to_download()'s result) is iterated; and the tasks
\* of a block are for the download-flagged products in the order the
\* selection lists them.
C27_TaskOrder ==
    ReturnedPlan =>
        LET ts == outcome.tasks
            flagged == FlaggedOf(selection)
        IN  /\ \A a, b, c \in DOMAIN ts :
                  (a < b /\ b < c /\ SceneOfTask(ts[a]) = SceneOfTask(ts[c]))
                      => SceneOfTask(ts[b]) = SceneOfTask(ts[a])
            /\ \A a \in DOMAIN ts : SceneOfTask(ts[a]) \in Range(ids)
            /\ \A a, b \in DOMAIN ts :
                  a < b => IndexIn(ids, SceneOfTask(ts[a])) <= IndexIn(ids, SceneOfTask(ts[b]))
            /\ \A s \in Range(ids) :
                  LET block == SelectSeq(ts, LAMBDA t : SceneOfTask(t) = s)
                  IN  [k \in DOMAIN block |-> ProductOfFile(block[k].output.file)]
                          = [k \in DOMAIN flagged |-> flagged[k].id]

\* C27 witness: a plan of two scenes with two different flagged products
\* each, the selection listing the scenes in the other order than they were
\* iterated.
C27_Witness ==
    /\ ReturnedPlan
    /\ Len(outcome.tasks) = 4
    /\ Len(ids) = 2
    /\ ids[1] = selection.ids_to_download[2]
    /\ FlaggedOf(selection)[1].id # FlaggedOf(selection)[2].id

\* ------------------------------------------------ extract_bucket_and_prefix
\* The parts str::split("/") yields of the string under
\* PRODUCT.alternate.s3.href of a catalog record that has one.
HrefParts(item) ==
    FieldOf(FieldOf(FieldOf(FieldOf(item, "PRODUCT"), "alternate"), "s3"), "href").parts

\* C30: extract_bucket_and_prefix is total on the catalog records whose
\* PRODUCT asset carries a string alternate.s3.href: whatever the string, it
\* returns a (bucket, prefix) pair or None and the call does not abort; a
\* pair returned holds the second '/'-separated segment of the href as
\* bucket and the remaining segments, joined by '/', as prefix.
\* (TLC finds this violated: the record whose href is "eodata".)
C30_TotalOnRecords ==
    \A n \in DOMAIN fetches :
        (selection.id = CopernicusId /\ fetches[n].kind = "item"
            /\ HasStorageLocation(fetches[n].reply)) =>
            LET found == ExtractBucketAndPrefix(fetches[n].reply)
                parts == HrefParts(fetches[n].reply)
            IN  /\ found.kind \in {"some", "none"}
                /\ ~(n = Len(fetches) /\ gpc = "panicked")
                /\ found.kind = "some"
                      => /\ found.bucket = parts[2]
                         /\ found.prefix = JoinSlash(SubSeq(parts, 3, Len(parts)))

\* ------------------------------------------------- two executors, one path
\* The conditions under which one executor is safe hold for every executor
\* that was invoked, each of them once: when its execute began the .partial
\* file was absent or a prefix of the remote object, and every HEAD and
\* range response was faithful.
AllFaithful ==
    /\ runs >= 1
    /\ runs = Cardinality({ e \in Executors : pc[e] # "idle" })
    /\ \A e \in Executors : pc[e] # "idle" => FaithfulRun(e)
    /\ \A n \in DOMAIN netlog : netlog[n].answer \in {"length", "exact"}

\* Executor e is at its rename and the .partial file is not there: the
\* rename fails.
RenameMustFail(e) ==
    /\ pc[e] = "rename"
    /\ ~Exists(PartialPath(plan[idx[e]].output))

\* The file under `path` does not hold (the beginning of) the remote object.
Corrupt(path, object) == Exists(path) /\ ~IsPrefix(Content(path), object)

\* C22: with two executors on one destination the guarantees of a single
\* one are lost, though every response is faithful, and only by the race:
\* a .partial file, or a destination made since the executors were invoked,
\* holds other bytes than the remote object's only when both executors
\* fetched and appended to the same file; and an executor is at a rename
\* that must fail only when the destination has come to exist since its
\* try_download began, the other executor having renamed the .partial file.
C22_RaceOnly ==
    AllFaithful =>
        LET dst == plan[1].output
            object == remote[plan[1].key]
            made == \A e \in Executors : pc[e] # "idle" => ~ExistedAt(fs0[e], dst)
        IN  /\ (Corrupt(PartialPath(dst), object) \/ (made /\ Corrupt(dst, object)))
                  => \A e \in Executors : RangeCalls(e, 1) # {}
            /\ \A e \in Executors :
                  RenameMustFail(e)
                      => /\ ~ExistedAt(fsT[e], dst)
                         /\ Exists(dst)
                         /\ \E o \in Executors \ {e} : pc[o] # "idle"

\* C22 witness: all responses faithful and no file there at the start, yet
\* the destination holds more than the remote object (both executors
\* appended to the file) and the second executor is at a rename that must
\* fail, the first having renamed the .partial file.
C22_Witness ==
    /\ AllFaithful
    /\ \A e \in Executors :
          /\ pc[e] # "idle"
          /\ ~ExistedAt(fs0[e], plan[1].output)
          /\ ~ExistedAt(fs0[e], PartialPath(plan[1].output))
    /\ ReturnedOk(1, 1)
    /\ RenameMustFail(2)
    /\ Corrupt(plan[1].output, remote[plan[1].key])
    /\ Len(Content(plan[1].output)) = 2 * Len(remote[plan[1].key])

\* ------------------------------------------------------------ retry converges
\* Every task of the plan is Complete: its destination exists and its
\* .partial file does not.
AllComplete ==
    \A i \in DOMAIN plan :
        Exists(plan[i].output) /\ ~Exists(PartialPath(plan[i].output))

\* A path pair the executor never leaves behind: the destination and its
\* .partial file both present.
LeftOver == \E i \in DOMAIN plan : Exists(plan[i].output) /\ Exists(PartialPath(plan[i].output))

\* A step in which a try_download fails.
FailureStep == \E e \in Executors : pc[e] # "failed" /\ pc'[e] = "failed"

\* A step of a plan that is complete: nothing on disk changes, no storage
\* call is made and nothing fails.
NoOpStep ==
    AllComplete =>
        /\ UNCHANGED fsvars
        /\ Len(netlog') <= Len(netlog)
        /\ \A e \in Executors : pc'[e] \notin {"failed", "panicked"}

\* C23: with one executor that is called again after every failure, if from
\* some point on no try_download fails, then from some point on every task
\* is Complete (destination present, .partial absent), whatever the storage
\* answered before; and once every task is Complete each step of a later
\* invocation changes nothing, asks the storage nothing and does not fail,
\* and the invocation returns Ok. (Plans that start with a destination and
\* its .partial file both on disk are left aside: the executor skips such a
\* task and never touches the pair.)
C23_RetryConverges ==
    /\ (~LeftOver /\ <>[][~FailureStep]_vars) => <>[]AllComplete
    /\ [][NoOpStep]_vars
    /\ AllComplete ~> (\A e \in Executors : pc[e] = "done" /\ result[e] = "Ok")

\* C23 witness: the second call of execute has completed a task whose first
\* try_download failed after writing some of its bytes.
C23_Witness ==
    /\ runs = 2
    /\ pc[1] = "done"
    /\ AllComplete
    /\ ~ExistedAt(fs0[1], plan[1].output)
    /\ ExistedAt(fs0[1], PartialPath(plan[1].output))
    /\ BytesAt(fs0[1], PartialPath(plan[1].output)) # <<>>
    /\ Content(plan[1].output) = remote[plan[1].key]

\* ------------------------------------------------ selection document round trip
\* C21: a selection built from a template holds the template's id,
\* ids_to_download and products; write fails on it only with the error of
\* fs::write; and a read that follows a write that returned Ok(()) returns
\* Ok with a selection of the same id, the same ids_to_download and the same
\* products (id, name, download) in the same order, and the same other
\* fields.
C21_RoundTrip ==
    /\ built.kind = "built"
          => /\ built.selection.id = built.table.id
             /\ built.selection.ids_to_download = built.table.ids_to_download
             /\ built.selection.products = built.table.products
    /\ (selwrote.kind = "Ok" /\ selread.kind = "returned")
          => /\ selread.result.ok
             /\ selread.result.v.id = built.selection.id
             /\ selread.result.v.ids_to_download = built.selection.ids_to_download
             /\ selread.result.v.products = built.selection.products
             /\ selread.result.v = built.selection

\* C21 witness: a selection with a description of several lines that holds
\* a '"', two scene identifiers (one with a '"') and two different products
\* was written and read back.
C21_Witness ==
    /\ selwrote.kind = "Ok"
    /\ selread.kind = "returned"
    /\ selread.result.ok
    /\ built.table.description = <<"l", NewLine, "m", Quote>>
    /\ selread.result.v.ids_to_download = << <<"S", Space, Quote>>, <<"S", "1">> >>
    /\ Len(selread.result.v.products) = 2
    /\ selread.result.v.products[1].download # selread.result.v.products[2].download

====
